---------------------------- MODULE Spec2Model ----------------------------
(***************************************************************************)
(* Pronunciation scoring engine of english-pronunciation-bolt.             *)
(*                                                                         *)
(* Strings are sequences of one-character strings.  JavaScript numbers    *)
(* are modelled as exact rationals <<n, d>> (d > 0); Math.round is         *)
(* floor(x + 1/2).  The scorers are the client scorer of                   *)
(* services/speechRecognition.ts, the server scorers of                    *)
(* app/api/pronunciation+api.ts and the encouragement transform of         *)
(* components/PronunciationCard.tsx.                                       *)
(***************************************************************************)
EXTENDS Integers, Sequences, FiniteSets, TLC

(***************************************************************************)
(* Bounds of the model.                                                    *)
(***************************************************************************)
\* longest target word / transcript core drawn as an input
MaxLen == 3
\* most startListening calls of one card that reach recognition.start()
MaxCalls == 3
\* longest string handed to calculateJaroSimilarity on its own
MaxJaroLen == 4
\* most word lists, and most words of a list the teacher creates
MaxLists == 3
MaxNewWords == 2
\* most progress records the data service holds
MaxStored == 3
\* most attempts the card of the practice screen starts
MaxAttempts == 2

(***************************************************************************)
(* Rational arithmetic (JavaScript number arithmetic, exact).              *)
(***************************************************************************)
Rat(n, d) == <<n, d>>
RInt(n) == <<n, 1>>
RAdd(x, y) == <<x[1] * y[2] + y[1] * x[2], x[2] * y[2]>>
RMul(x, y) == <<x[1] * y[1], x[2] * y[2]>>
RLe(x, y) == x[1] * y[2] <= y[1] * x[2]
RLt(x, y) == x[1] * y[2] < y[1] * x[2]
RMax(x, y) == IF RLe(x, y) THEN y ELSE x
RMin(x, y) == IF RLe(x, y) THEN x ELSE y
\* Math.round: the nearest integer, halves upward: floor(x + 1/2)
RRound(x) == (2 * x[1] + x[2]) \div (2 * x[2])
Abs(n) == IF n < 0 THEN -n ELSE n
Max2(a, b) == IF a >= b THEN a ELSE b
Min2(a, b) == IF a <= b THEN a ELSE b

(***************************************************************************)
(* Characters and the string primitives of JavaScript the scorers use.     *)
(***************************************************************************)
UpperCase == <<"A","B","C","D","E","F","G","H","I","J","K","L","M",
               "N","O","P","Q","R","S","T","U","V","W","X","Y","Z">>
LowerCase == <<"a","b","c","d","e","f","g","h","i","j","k","l","m",
               "n","o","p","q","r","s","t","u","v","w","x","y","z">>
Digits == {"0","1","2","3","4","5","6","7","8","9"}
Range(s) == {s[i] : i \in DOMAIN s}
\* \s of the regular expressions, and what trim() strips
SpaceChars == {" ", "\t", "\n"}
IsSpace(c) == c \in SpaceChars
\* \w of the regular expressions: [A-Za-z0-9_]
WordChars == Range(UpperCase) \cup Range(LowerCase) \cup Digits \cup {"_"}
IsWordChar(c) == c \in WordChars
LowerOf == [c \in Range(UpperCase) |->
               LowerCase[CHOOSE i \in DOMAIN UpperCase : UpperCase[i] = c]]
UpperOf == [c \in Range(LowerCase) |->
               UpperCase[CHOOSE i \in DOMAIN LowerCase : LowerCase[i] = c]]
ToLowerChar(c) == IF c \in DOMAIN LowerOf THEN LowerOf[c] ELSE c
ToUpperChar(c) == IF c \in DOMAIN UpperOf THEN UpperOf[c] ELSE c
\* String.prototype.toLowerCase
toLowerCase(s) == [i \in 1..Len(s) |-> ToLowerChar(s[i])]
\* String.prototype.trim
RECURSIVE TrimLeft(_)
TrimLeft(s) == IF s /= <<>> /\ IsSpace(Head(s)) THEN TrimLeft(Tail(s)) ELSE s
RECURSIVE TrimRight(_)
TrimRight(s) ==
    IF s /= <<>> /\ IsSpace(s[Len(s)]) THEN TrimRight(SubSeq(s, 1, Len(s) - 1)) ELSE s
trim(s) == TrimRight(TrimLeft(s))
\* s.slice(0, -1)
DropLast(s) == IF s = <<>> THEN s ELSE SubSeq(s, 1, Len(s) - 1)
\* does pat occur in s at position i (1-based)
MatchAt(s, pat, i) ==
    /\ i + Len(pat) - 1 <= Len(s)
    /\ \A k \in 1..Len(pat) : s[i + k - 1] = pat[k]
\* String.prototype.includes
includes(s, pat) == \E i \in 1..(Len(s) + 1) : MatchAt(s, pat, i)
\* String.prototype.endsWith
endsWith(s, pat) == Len(pat) <= Len(s) /\ MatchAt(s, pat, Len(s) - Len(pat) + 1)
\* s.replace(/pat/, rep): the first occurrence only
ReplaceFirst(s, pat, rep) ==
    IF includes(s, pat)
    THEN LET i == CHOOSE j \in 1..Len(s) :
                    MatchAt(s, pat, j) /\ \A k \in 1..(j - 1) : ~MatchAt(s, pat, k)
         IN SubSeq(s, 1, i - 1) \o rep \o SubSeq(s, i + Len(pat), Len(s))
    ELSE s
\* s.replace(/pat/g, rep): every occurrence, left to right, not overlapping
RECURSIVE ReplaceAll(_, _, _)
ReplaceAll(s, pat, rep) ==
    IF s = <<>> THEN <<>>
    ELSE IF MatchAt(s, pat, 1)
         THEN rep \o ReplaceAll(SubSeq(s, Len(pat) + 1, Len(s)), pat, rep)
         ELSE <<Head(s)>> \o ReplaceAll(Tail(s), pat, rep)
\* s.replace(/pat$/, rep): at the end of the string only
ReplaceSuffix(s, pat, rep) ==
    IF endsWith(s, pat) THEN SubSeq(s, 1, Len(s) - Len(pat)) \o rep ELSE s
\* s.replace(/(.)\1+/g, '$1'): a run of one character collapses to that character
RECURSIVE CollapseRuns(_)
CollapseRuns(s) ==
    IF Len(s) <= 1 THEN s
    ELSE IF s[1] = s[2] THEN CollapseRuns(Tail(s))
         ELSE <<Head(s)>> \o CollapseRuns(Tail(s))
IsVowel(c) == c \in {"a", "e", "i", "o", "u"}
IsVowelY(c) == c \in {"a", "e", "i", "o", "u", "y"}
\* (s.match(/[aeiouy]+/g) || []).length: the number of maximal runs of vowel letters
VowelGroups(s) ==
    Cardinality({i \in 1..Len(s) : IsVowelY(s[i]) /\ (i = 1 \/ ~IsVowelY(s[i - 1]))})


(***************************************************************************)
(* Client scorer: services/speechRecognition.ts.                           *)
(***************************************************************************)
\* .replace(/[^\w\s]/g, ''): punctuation removed
KeepsWordOrSpace(c) == IsWordChar(c) \/ IsSpace(c)
NotSpace(c) == ~IsSpace(c)
cleanWord(word) ==
    SelectSeq(SelectSeq(trim(toLowerCase(word)), KeepsWordOrSpace), NotSpace)

normalizeForAccents(word) ==
    LET s1 == ReplaceAll(word, <<"p", "h">>, <<"f">>)
        s2 == ReplaceAll(s1, <<"c", "k">>, <<"k">>)
        s3 == ReplaceAll(s2, <<"q", "u">>, <<"k", "w">>)
        s4 == ReplaceAll(s3, <<"x">>, <<"k", "s">>)
        s5 == ReplaceAll(s4, <<"c">>, <<"k">>)
        s6 == ReplaceAll(s5, <<"y">>, <<"i">>)
        s7 == CollapseRuns(s6)
    IN ReplaceSuffix(s7, <<"e">>, <<>>)

\* the matching loop of Jaro: for i upward, the first unmatched j of the window
\* with the same character; returns <<matched indices of s1, matched indices of s2>>
RECURSIVE JaroScan(_, _, _, _, _)
JaroScan(s1, s2, w, i, m2) ==
    IF i > Len(s1) THEN <<{}, m2>>
    ELSE LET cand == {j \in Max2(1, i - w)..Min2(i + w, Len(s2)) :
                         j \notin m2 /\ s1[i] = s2[j]}
         IN IF cand = {} THEN JaroScan(s1, s2, w, i + 1, m2)
            ELSE LET j == CHOOSE x \in cand : \A y \in cand : x <= y
                     rest == JaroScan(s1, s2, w, i + 1, m2 \cup {j})
                 IN <<rest[1] \cup {i}, rest[2]>>
\* the k-th smallest element of a set of numbers
Nth(S, k) == CHOOSE e \in S : Cardinality({x \in S : x < e}) = k - 1
\* the transposition loop: the k-th matched character of s1 against the k-th of s2
JaroTranspositions(s1, s2, m) ==
    Cardinality({k \in 1..Cardinality(m[1]) : s1[Nth(m[1], k)] /= s2[Nth(m[2], k)]})
JaroValue(len1, len2, matches, transpositions) ==
    \* (matches/len1 + matches/len2 + (matches - transpositions/2)/matches) / 3
    RMul(RAdd(RAdd(Rat(matches, len1), Rat(matches, len2)),
              Rat(2 * matches - transpositions, 2 * matches)),
         Rat(1, 3))
\* calculateJaroSimilarity with the match window taken from str1 alone
calculateJaroSimilarity_windowOfFirst(str1, str2) ==
    IF str1 = str2 THEN RInt(1)
    ELSE IF Len(str1) = 0 \/ Len(str2) = 0 THEN RInt(0)
    ELSE LET matchWindow == (Len(str1) \div 2) - 1
             m == JaroScan(str1, str2, matchWindow, 1, {})
             matches == Cardinality(m[1])
         IN IF matches = 0 THEN RInt(0)
            ELSE JaroValue(Len(str1), Len(str2), matches,
                           JaroTranspositions(str1, str2, m))
calculateJaroSimilarity(str1, str2) ==
    IF str1 = str2 THEN RInt(1)
    ELSE IF Len(str1) = 0 \/ Len(str2) = 0 THEN RInt(0)
    ELSE LET matchWindow == (Max2(Len(str1), Len(str2)) \div 2) - 1
             m == JaroScan(str1, str2, matchWindow, 1, {})
             matches == Cardinality(m[1])
         IN IF matches = 0 THEN RInt(0)
            ELSE JaroValue(Len(str1), Len(str2), matches,
                           JaroTranspositions(str1, str2, m))

calculateLenientSimilarity(str1, str2) ==
    LET longer == IF Len(str1) > Len(str2) THEN str1 ELSE str2
        shorter == IF Len(str1) > Len(str2) THEN str2 ELSE str1
    IN IF Len(longer) = 0 THEN RInt(100)
       ELSE LET jaroSimilarity == calculateJaroSimilarity(str1, str2)
                substringMatch == IF includes(longer, shorter)
                                  THEN Rat(100 * Len(shorter), Len(longer))
                                  ELSE RInt(0)
            IN RMax(RMul(jaroSimilarity, RInt(100)), substringMatch)

calculateCoreWordAccuracy(target, spoken) ==
    LET normalizedTarget == normalizeForAccents(target)
        normalizedSpoken == normalizeForAccents(spoken)
    IN IF normalizedTarget = normalizedSpoken THEN RInt(95)
       ELSE RMul(calculateLenientSimilarity(normalizedTarget, normalizedSpoken),
                 Rat(9, 10))

\* word.match(/[aeiou]/g) || []
extractVowelPattern(word) == SelectSeq(word, IsVowel)

RECURSIVE longestCommonSubsequence(_, _)
longestCommonSubsequence(seq1, seq2) ==
    IF seq1 = <<>> \/ seq2 = <<>> THEN 0
    ELSE IF seq1[Len(seq1)] = seq2[Len(seq2)]
         THEN longestCommonSubsequence(DropLast(seq1), DropLast(seq2)) + 1
         ELSE Max2(longestCommonSubsequence(DropLast(seq1), seq2),
                   longestCommonSubsequence(seq1, DropLast(seq2)))

calculateSequenceSimilarity(seq1, seq2) ==
    LET maxLength == Max2(Len(seq1), Len(seq2))
    IN IF maxLength = 0 THEN RInt(100)
       ELSE \* (lcs / maxLength) * 100 * 0.8 + (1 - |len1 - len2| / maxLength) * 20
            Rat(80 * longestCommonSubsequence(seq1, seq2)
                  + 20 * (maxLength - Abs(Len(seq1) - Len(seq2))),
                maxLength)

calculateStressPatternAccuracy(target, spoken) ==
    LET targetVowels == extractVowelPattern(target)
        spokenVowels == extractVowelPattern(spoken)
    IN IF Len(targetVowels) = 0 /\ Len(spokenVowels) = 0 THEN RInt(100)
       ELSE IF Len(targetVowels) = 0 \/ Len(spokenVowels) = 0 THEN RInt(50)
       ELSE RMax(RInt(60), calculateSequenceSimilarity(targetVowels, spokenVowels))

\* estimateSyllableCount returning its count without the lower limit of 1
estimateSyllableCount_noFloor(word) ==
    IF Len(word) = 0 THEN 0
    ELSE LET groups == VowelGroups(toLowerCase(word))
         IN IF endsWith(toLowerCase(word), <<"e">>) /\ groups > 1
            THEN groups - 1 ELSE groups
estimateSyllableCount(word) ==
    IF Len(word) = 0 THEN 0
    ELSE LET groups == VowelGroups(toLowerCase(word))
             syllables == IF endsWith(toLowerCase(word), <<"e">>) /\ groups > 1
                          THEN groups - 1 ELSE groups
         IN Max2(1, syllables)

calculateSyllableAccuracy(target, spoken) ==
    LET targetSyllables == estimateSyllableCount(target)
        spokenSyllables == estimateSyllableCount(spoken)
        difference == Abs(targetSyllables - spokenSyllables)
        maxSyllables == Max2(targetSyllables, spokenSyllables)
    IN IF targetSyllables = spokenSyllables THEN RInt(100)
       ELSE IF maxSyllables = 0 THEN RInt(100)
       ELSE IF difference <= 1 THEN RInt(85)
       ELSE RMax(RInt(50), Rat(100 * maxSyllables - 50 * difference, maxSyllables))

\* the loop over the target's characters: a character found among the spoken
\* characters still left is counted and removed from them
RECURSIVE MatchedChars(_, _)
MatchedChars(targetChars, spokenChars) ==
    IF targetChars = <<>> THEN 0
    ELSE IF \E i \in DOMAIN spokenChars : spokenChars[i] = Head(targetChars)
         THEN LET index == CHOOSE i \in DOMAIN spokenChars :
                              /\ spokenChars[i] = Head(targetChars)
                              /\ \A k \in 1..(i - 1) : spokenChars[k] /= Head(targetChars)
              IN 1 + MatchedChars(Tail(targetChars),
                                  SubSeq(spokenChars, 1, index - 1)
                                    \o SubSeq(spokenChars, index + 1, Len(spokenChars)))
         ELSE MatchedChars(Tail(targetChars), spokenChars)
calculateContainmentRatio(target, spoken) ==
    IF Len(target) = 0 THEN RInt(0)
    ELSE Rat(MatchedChars(target, spoken), Len(target))

\* the accentVariations table: a pattern anchored at the end (/r$/) or not (/a/),
\* none of them global: the first occurrence only
accentVariations == <<
    [atEnd |-> TRUE,  pattern |-> <<"r">>,      replacement |-> <<>>],
    [atEnd |-> TRUE,  pattern |-> <<"e", "r">>, replacement |-> <<"a">>],
    [atEnd |-> FALSE, pattern |-> <<"a">>,      replacement |-> <<"e">>],
    [atEnd |-> FALSE, pattern |-> <<"i">>,      replacement |-> <<"e">>],
    [atEnd |-> FALSE, pattern |-> <<"o">>,      replacement |-> <<"u">>],
    [atEnd |-> FALSE, pattern |-> <<"t", "h">>, replacement |-> <<"d">>],
    [atEnd |-> FALSE, pattern |-> <<"t", "h">>, replacement |-> <<"f">>],
    [atEnd |-> FALSE, pattern |-> <<"v">>,      replacement |-> <<"w">>],
    [atEnd |-> FALSE, pattern |-> <<"w">>,      replacement |-> <<"v">>],
    [atEnd |-> FALSE, pattern |-> <<"z">>,      replacement |-> <<"s">>],
    [atEnd |-> FALSE, pattern |-> <<"j">>,      replacement |-> <<"y">>] >>
ApplyVariation(v, s) ==
    IF v.atEnd THEN ReplaceSuffix(s, v.pattern, v.replacement)
    ELSE ReplaceFirst(s, v.pattern, v.replacement)
\* the loop over accentVariations testing the modified target alone
AccentVariationMatch_targetOnly(target, spoken) ==
    \E n \in DOMAIN accentVariations :
        ApplyVariation(accentVariations[n], target) = spoken
AccentVariationMatch(target, spoken) ==
    \E n \in DOMAIN accentVariations :
        LET modifiedTarget == ApplyVariation(accentVariations[n], target)
            modifiedSpoken == ApplyVariation(accentVariations[n], spoken)
        IN \/ modifiedTarget = spoken
           \/ target = modifiedSpoken
           \/ modifiedTarget = modifiedSpoken
calculateAccentToleranceBonus(target, spoken) ==
    LET maxLen == Max2(Len(target), Len(spoken))
        b1 == IF AccentVariationMatch(target, spoken) THEN 15 ELSE 0
        \* lengthSimilarity = 1 - |lt - ls| / max(lt, ls) > 0.7
        b2 == IF 10 * (maxLen - Abs(Len(target) - Len(spoken))) > 7 * maxLen
              THEN 10 ELSE 0
        \* containmentRatio > 0.6
        b3 == IF RLt(Rat(6, 10), calculateContainmentRatio(target, spoken))
              THEN 5 ELSE 0
    IN Min2(25, b1 + b2 + b3)

\* finalAccuracy = Math.min(100, baseAccuracy + accentToleranceBonus), with the
\* minimum left out
ApplyAccentBonus_uncapped(baseAccuracy, accentToleranceBonus) ==
    RAdd(baseAccuracy, RInt(accentToleranceBonus))
\* finalAccuracy = Math.min(100, baseAccuracy + accentToleranceBonus)
ApplyAccentBonus(baseAccuracy, accentToleranceBonus) ==
    RMin(RInt(100), RAdd(baseAccuracy, RInt(accentToleranceBonus)))

calculateAccuracy(targetWord, spokenWord) ==
    LET target == cleanWord(targetWord)
        spoken == cleanWord(spokenWord)
    IN IF target = spoken THEN 100
       ELSE IF Len(target) = 0 \/ Len(spoken) = 0 THEN 0
       ELSE LET coreWordAccuracy == calculateCoreWordAccuracy(target, spoken)
                stressPatternAccuracy == calculateStressPatternAccuracy(target, spoken)
                syllableAccuracy == calculateSyllableAccuracy(target, spoken)
                accentToleranceBonus == calculateAccentToleranceBonus(target, spoken)
                baseAccuracy == RAdd(RAdd(RMul(coreWordAccuracy, Rat(1, 2)),
                                          RMul(stressPatternAccuracy, Rat(1, 4))),
                                     RMul(syllableAccuracy, Rat(1, 4)))
                finalAccuracy == ApplyAccentBonus(baseAccuracy, accentToleranceBonus)
            IN RRound(RMax(RInt(0), finalAccuracy))


(***************************************************************************)
(* Server scorers: app/api/pronunciation+api.ts.                           *)
(*                                                                         *)
(* A speechResult is the provider's response body reduced to what the      *)
(* handler reads: results[0].alternatives[0], if there is one, with its    *)
(* transcript, its confidence in hundredths (0: absent or zero, both       *)
(* falsy) and its words, each [word, confidence].                          *)
(***************************************************************************)
\* calculateJaroSimilarity of the API route without its first test s1 === s2
apiCalculateJaroSimilarity_noIdentityTest(s1, s2) ==
    IF Len(s1) = 0 \/ Len(s2) = 0 THEN RInt(0)
    ELSE LET matchWindow == (Max2(Len(s1), Len(s2)) \div 2) - 1
             m == JaroScan(s1, s2, matchWindow, 1, {})
             matches == Cardinality(m[1])
         IN IF matches = 0 THEN RInt(0)
            ELSE JaroValue(Len(s1), Len(s2), matches, JaroTranspositions(s1, s2, m))
apiCalculateJaroSimilarity(s1, s2) ==
    IF s1 = s2 THEN RInt(1)
    ELSE IF Len(s1) = 0 \/ Len(s2) = 0 THEN RInt(0)
    ELSE LET matchWindow == (Max2(Len(s1), Len(s2)) \div 2) - 1
             m == JaroScan(s1, s2, matchWindow, 1, {})
             matches == Cardinality(m[1])
         IN IF matches = 0 THEN RInt(0)
            ELSE JaroValue(Len(s1), Len(s2), matches, JaroTranspositions(s1, s2, m))

\* the matrix filled with the deletion term matrix[j][i - 1] taken without its + 1
RECURSIVE LevCell_freeDeletion(_, _, _, _)
LevCell_freeDeletion(str1, str2, i, j) ==
    IF j = 0 THEN i
    ELSE IF i = 0 THEN j
    ELSE LET indicator == IF str1[i] = str2[j] THEN 0 ELSE 1
         IN Min2(Min2(LevCell_freeDeletion(str1, str2, i - 1, j),
                      LevCell_freeDeletion(str1, str2, i, j - 1) + 1),
                 LevCell_freeDeletion(str1, str2, i - 1, j - 1) + indicator)
\* matrix[j][i] of levenshteinDistance, by the recurrence that fills it
RECURSIVE LevCell(_, _, _, _)
LevCell(str1, str2, i, j) ==
    IF j = 0 THEN i
    ELSE IF i = 0 THEN j
    ELSE LET indicator == IF str1[i] = str2[j] THEN 0 ELSE 1
         IN Min2(Min2(LevCell(str1, str2, i - 1, j) + 1,
                      LevCell(str1, str2, i, j - 1) + 1),
                 LevCell(str1, str2, i - 1, j - 1) + indicator)
levenshteinDistance(str1, str2) == LevCell(str1, str2, Len(str1), Len(str2))

calculateStringsimilarity(target, spoken) ==
    IF target = spoken THEN 100
    ELSE IF Len(target) = 0 \/ Len(spoken) = 0 THEN 0
    ELSE LET jaroSimilarity == apiCalculateJaroSimilarity(target, spoken)
             maxLength == Max2(Len(target), Len(spoken))
             distance == levenshteinDistance(target, spoken)
             levenshteinSimilarity == Rat(maxLength - distance, maxLength)
             combinedSimilarity ==
                 RMul(RAdd(RMul(jaroSimilarity, Rat(7, 10)),
                           RMul(levenshteinSimilarity, Rat(3, 10))),
                      RInt(100))
         IN Max2(0, RRound(combinedSimilarity))

calculateSimpleAccuracy(target, spoken) == calculateStringsimilarity(target, spoken)

\* the variations table of calculatePronunciationBonus, every pattern global;
\* "esh" stands for the one character U+0283
pronunciationVariations == <<
    [atEnd |-> FALSE, from |-> <<"t", "h">>,   to |-> <<"d">>],
    [atEnd |-> FALSE, from |-> <<"t", "h">>,   to |-> <<"f">>],
    [atEnd |-> FALSE, from |-> <<"v">>,        to |-> <<"w">>],
    [atEnd |-> FALSE, from |-> <<"w">>,        to |-> <<"v">>],
    [atEnd |-> TRUE,  from |-> <<"r">>,        to |-> <<>>],
    [atEnd |-> TRUE,  from |-> <<"e", "r">>,   to |-> <<"a">>],
    [atEnd |-> FALSE, from |-> <<"z">>,        to |-> <<"s">>],
    [atEnd |-> FALSE, from |-> <<"j">>,        to |-> <<"y">>],
    [atEnd |-> FALSE, from |-> <<"esh">>,      to |-> <<"s">>],
    [atEnd |-> FALSE, from |-> <<"t", "esh">>, to |-> <<"t", "s">>] >>
ApplyPronunciationVariation(v, s) ==
    IF v.atEnd THEN ReplaceSuffix(s, v.from, v.to) ELSE ReplaceAll(s, v.from, v.to)
calculatePronunciationBonus(target, spoken) ==
    LET matched == \E n \in DOMAIN pronunciationVariations :
                      LET v == pronunciationVariations[n]
                      IN \/ ApplyPronunciationVariation(v, target) = spoken
                         \/ target = ApplyPronunciationVariation(v, spoken)
        lengthDiff == Abs(Len(target) - Len(spoken))
        b1 == IF matched THEN 8 ELSE 0
        b2 == IF lengthDiff <= 1 THEN 3 ELSE IF lengthDiff <= 2 THEN 1 ELSE 0
    IN Min2(12, b1 + b2)

estimateSyllables(word) ==
    LET lower == toLowerCase(word)
        groups == VowelGroups(lower)
        afterE == IF endsWith(lower, <<"e">>) /\ groups > 1 THEN groups - 1 ELSE groups
        afterLe == IF endsWith(lower, <<"l", "e">>) /\ afterE > 1 THEN afterE + 1 ELSE afterE
    IN Max2(1, afterLe)

calculateStressPatternBonus(target, spoken) ==
    LET targetSyllables == estimateSyllables(target)
        spokenSyllables == estimateSyllables(spoken)
    IN IF targetSyllables = spokenSyllables THEN 5
       ELSE IF Abs(targetSyllables - spokenSyllables) = 1 THEN 2
       ELSE 0

\* the loop over the words: the first word equal to the target returns at once
RECURSIVE WordLoop(_, _, _)
WordLoop(words, targetLower, bestMatch) ==
    IF words = <<>> THEN bestMatch
    ELSE LET wordText == toLowerCase(Head(words).word)
             confidence == Head(words).confidence
         IN IF wordText = targetLower THEN RInt(confidence)
            ELSE IF includes(wordText, targetLower) \/ includes(targetLower, wordText)
                 THEN WordLoop(Tail(words), targetLower,
                               RMax(bestMatch, Rat(80 * confidence, 100)))
                 ELSE WordLoop(Tail(words), targetLower, bestMatch)
calculateWordLevelAccuracy(targetWord, speechResult) ==
    IF ~speechResult.hasAlternative \/ speechResult.words = <<>> THEN RInt(0)
    ELSE WordLoop(speechResult.words, toLowerCase(targetWord), RInt(0))

extractBestTranscript(speechResult) ==
    IF speechResult.hasAlternative THEN trim(speechResult.transcript) ELSE <<>>

calculateAdvancedAccuracy(targetWord, transcript, speechResult) ==
    LET target == trim(toLowerCase(targetWord))
        spoken == trim(toLowerCase(transcript))
    IN IF target = spoken THEN 100
       ELSE LET fromConfidence == IF speechResult.hasAlternative
                                  THEN speechResult.confidence ELSE 0
                baseAccuracy == IF fromConfidence = 0
                                THEN calculateStringsimilarity(target, spoken)
                                ELSE fromConfidence
                pronunciationBonus == calculatePronunciationBonus(target, spoken)
                wordLevelAccuracy == calculateWordLevelAccuracy(target, speechResult)
                stressPatternBonus == calculateStressPatternBonus(target, spoken)
                finalAccuracy ==
                    RMin(RInt(100),
                         RAdd(RAdd(RMul(RInt(baseAccuracy), Rat(6, 10)),
                                   RMul(wordLevelAccuracy, Rat(25, 100))),
                              RInt(pronunciationBonus + stressPatternBonus)))
            IN Max2(0, RRound(finalAccuracy))

\* the mockVariations array of fallbackTranscription
mockVariations(targetWord) == <<
    targetWord,
    toLowerCase(targetWord),
    (IF targetWord = <<>> THEN <<>> ELSE <<ToUpperChar(Head(targetWord))>>)
        \o (IF targetWord = <<>> THEN <<>> ELSE toLowerCase(Tail(targetWord))),
    [i \in 1..Len(targetWord) |->
        IF IsVowel(targetWord[i]) THEN "e" ELSE targetWord[i]],
    DropLast(targetWord),
    targetWord \o <<"s">>,
    ReplaceAll(targetWord, <<"t", "h">>, <<"d">>),
    ReplaceSuffix(targetWord, <<"r">>, <<>>) >>

(***************************************************************************)
(* Encouragement transform: components/PronunciationCard.tsx.              *)
(***************************************************************************)
\* enhanceAccuracyScore with the second range test written without its upper end
\* (rawAccuracy >= 70 instead of rawAccuracy >= 70 && rawAccuracy < 85)
enhanceAccuracyScore_openRange(rawAccuracy) ==
    LET boostedAccuracy ==
            IF rawAccuracy >= 40 /\ rawAccuracy < 70 THEN Min2(85, rawAccuracy + 15)
            ELSE IF rawAccuracy >= 70 THEN Min2(92, rawAccuracy + 7)
            ELSE IF rawAccuracy >= 30 /\ rawAccuracy < 40 THEN Min2(65, rawAccuracy + 25)
            ELSE rawAccuracy
    IN IF rawAccuracy >= 20 /\ boostedAccuracy < 45 THEN 45 ELSE boostedAccuracy
\* enhanceAccuracyScore without the floor of 45 for genuine attempts
enhanceAccuracyScore_noFloor(rawAccuracy) ==
    IF rawAccuracy >= 40 /\ rawAccuracy < 70 THEN Min2(85, rawAccuracy + 15)
    ELSE IF rawAccuracy >= 70 /\ rawAccuracy < 85 THEN Min2(92, rawAccuracy + 7)
    ELSE IF rawAccuracy >= 30 /\ rawAccuracy < 40 THEN Min2(65, rawAccuracy + 25)
    ELSE rawAccuracy
enhanceAccuracyScore(rawAccuracy) ==
    LET boostedAccuracy ==
            IF rawAccuracy >= 40 /\ rawAccuracy < 70 THEN Min2(85, rawAccuracy + 15)
            ELSE IF rawAccuracy >= 70 /\ rawAccuracy < 85 THEN Min2(92, rawAccuracy + 7)
            ELSE IF rawAccuracy >= 30 /\ rawAccuracy < 40 THEN Min2(65, rawAccuracy + 25)
            ELSE rawAccuracy
        enhancedAccuracy ==
            IF rawAccuracy >= 20 /\ boostedAccuracy < 45 THEN 45 ELSE boostedAccuracy
    IN enhancedAccuracy


(***************************************************************************)
(* Inputs of the scorers.                                                  *)
(***************************************************************************)
\* letters of the target words
Letters == {"a", "c", "t"}
\* all strings over S of length at most n
StringsUpTo(S, n) == UNION {[1..k -> S] : k \in 0..n}
TargetWords == StringsUpTo(Letters, MaxLen)
\* how a transcript may spell a word: as it is, capitalised ("Cat"), with a
\* punctuation mark ("cat."), with a blank after it ("cat "), in two parts ("c at")
Spellings == {"plain", "capital", "period", "blank", "split"}
Spell(how, w) ==
    CASE how = "plain" -> w
      [] how = "capital" -> IF w = <<>> THEN w ELSE <<ToUpperChar(Head(w))>> \o Tail(w)
      [] how = "period" -> w \o <<".">>
      [] how = "blank" -> w \o <<" ">>
      [] how = "split" -> IF w = <<>> THEN <<" ">> ELSE <<Head(w), " ">> \o Tail(w)
\* transcripts of a provider or recogniser for a target word: any word, or the
\* target word itself in any spelling
TranscriptsFor(w) == StringsUpTo(Letters, MaxLen) \cup {Spell(how, w) : how \in Spellings}
\* provider confidences, in hundredths (0: none reported)
Confidences == {0, 40, 95}
NoResult == [hasAlternative |-> FALSE, transcript |-> <<>>, confidence |-> 0,
             words |-> <<>>]
\* what a provider may answer for a transcript: nothing, or the transcript with
\* a confidence and with or without word-level data
SpeechResults(t) ==
    {NoResult} \cup
    UNION {{[hasAlternative |-> TRUE, transcript |-> t, confidence |-> c, words |-> w] :
               w \in {<<>>, <<[word |-> trim(t), confidence |-> c]>>}} :
           c \in Confidences}
None == -1

(***************************************************************************)
(* The POST handler's pure parts: app/api/pronunciation+api.ts.            *)
(***************************************************************************)
\* if (!apiKey || !projectId || !endpoint), with the project id left out
IsConfigured_noProjectId(env) == env.apiKey /\ env.endpoint
\* the negation of  !apiKey || !projectId || !endpoint
IsConfigured(env) == env.apiKey /\ env.projectId /\ env.endpoint

NoResponse == [status |-> 0, success |-> FALSE, provider |-> "none",
               transcript |-> <<>>, accuracy |-> None, error |-> "none"]
\* the 400 response of POST
MissingInputResponse ==
    [status |-> 400, success |-> FALSE, provider |-> "none", transcript |-> <<>>,
     accuracy |-> None, error |-> "Missing audio file or target word"]
\* the 500 response of POST's catch
InternalErrorResponse ==
    [status |-> 500, success |-> FALSE, provider |-> "none", transcript |-> <<>>,
     accuracy |-> None, error |-> "Internal server error"]
\* fallbackTranscription, k the index Math.random() picks
fallbackTranscription(targetWord, k) ==
    LET randomTranscript == mockVariations(targetWord)[k]
    IN [status |-> 200, success |-> TRUE, provider |-> "fallback",
        transcript |-> randomTranscript,
        accuracy |-> calculateSimpleAccuracy(targetWord, randomTranscript),
        error |-> "none"]
\* the 200 response of POST on the provider path
ProviderResponse(targetWord, speechResult) ==
    LET bestTranscript == extractBestTranscript(speechResult)
    IN [status |-> 200, success |-> TRUE, provider |-> "google-speech-to-text",
        transcript |-> bestTranscript,
        accuracy |-> calculateAdvancedAccuracy(targetWord, bestTranscript, speechResult),
        error |-> "none"]

(***************************************************************************)
(* Inputs of an attempt.                                                   *)
(***************************************************************************)
\* words of the practice card
CardWords == {<<"c", "a", "t">>, <<"a", "c", "t">>}
\* what the recogniser may hear for a word: the word, the word capitalised, the
\* word with one letter changed, the word cut short
HeardFor(w) == {w, Spell("capital", w), <<"t">> \o Tail(w), DropLast(w)}
\* what the provider may transcribe for a word
ProviderTranscriptsFor(w) == {w, Spell("period", w), <<"t">> \o Tail(w)}
NoRequest == [from |-> "none", audio |-> FALSE, targetWord |-> <<>>]
NoReport == [accuracy |-> None, transcript |-> <<>>]

VARIABLES
    \* the scorers applied to one pair (SpecScore, SpecEnhance)
    target, transcript, speechResult, pc, scorer, raw, boosted,
    \* the environment of the POST handler: which of the three settings are set
    env,
    \* PronunciationCard: word.text and the component's state
    word, isAvailable, isRecording, isProcessing, cardError, lastAccuracy,
    \* the position of handleListen and of its onResult callback
    cardPc,
    \* the transcript the recogniser handed to onResult
    heard,
    \* rawAccuracy / enhancedResult.accuracy of the running callback
    attemptRaw,
    \* the arguments of the last onPronunciationResult call
    reported,
    \* the request POST is serving, the handler's position, what its fetch of the
    \* provider did, how many provider calls it made, its response
    request, apiPc, backend, outboundCalls, response,
    \* SpeechRecognitionService: _isListening; the browser's recognition object
    \* (idle, starting, listening, ending); the handlers installed on it: the
    \* startListening call they belong to and its resultHandled; the number of
    \* startListening calls that reached recognition.start()
    isListening, engine, handlers, calls,
    \* for each startListening call, in the order of the calls, the callbacks it
    \* has invoked ("onResult" / "onError", each with the promise settled); the
    \* calls whose maxTimeout is pending
    outcomes, timers,
    \* the onResult callbacks that are running: [call, transcript]
    pipelines,
    \* a function of the scorers applied on its own: its name, its arguments,
    \* its result
    fn, fnArgs, fnResult,
    \* DataService: the number of words of each word list, in the order of
    \* wordLists (a word is named by its list and its place in it), and for each
    \* list the progress record kept for the student, if any
    wordLists, stored,
    \* StudentPracticeScreen: its state; the handlePronunciationResult of the
    \* render in which the running attempt was started; the auto-advance timers
    \* pending; whether showListCompletionAchievement has run
    \* and how many attempts the card has started
    currentWordListIndex, currentWordIndex, progress, attempt, advanceTimers,
    listCompletionShown, attemptsMade,
    \* GeminiService: whether apiKey is set, chatHistory, the sendMessage calls
    \* waiting for the backend, how the last call that ended did end
    apiKey, chatHistory, pending, lastCall

scoreVars == <<target, transcript, speechResult, pc, scorer, raw, boosted>>
cardVars == <<word, isAvailable, isRecording, isProcessing, cardError, lastAccuracy,
              cardPc, heard, attemptRaw, reported>>
apiVars == <<env, request, apiPc, backend, outboundCalls, response>>
flightVars == <<isListening, engine, handlers, calls, outcomes, timers, pipelines>>
pureVars == <<fn, fnArgs, fnResult>>
practiceVars == <<wordLists, stored, currentWordListIndex, currentWordIndex, progress,
                  attempt, advanceTimers, listCompletionShown, attemptsMade>>
chatVars == <<apiKey, chatHistory, pending, lastCall>>
vars == <<scoreVars, cardVars, apiVars, flightVars, pureVars, practiceVars, chatVars>>

\* no scorer under test
ScoreIdle ==
    /\ target = <<>>
    /\ transcript = <<>>
    /\ speechResult = NoResult
    /\ pc = "idle"
    /\ scorer = "none"
    /\ raw = None
    /\ boosted = None
NoHandlers == [call |-> 0, resultHandled |-> TRUE]
\* the service as constructed: nothing started, no handlers installed
FlightIdle ==
    /\ isListening = FALSE
    /\ engine = "idle"
    /\ handlers = NoHandlers
    /\ calls = 0
    /\ outcomes = <<>>
    /\ timers = {}
    /\ pipelines = {}
\* progress === null / undefined, and no attempt running
NoProgress == [wordListId |-> 0, completedWords |-> {}, currentWordIndex |-> 0]
NoAttempt == [listIndex |-> 0, wordIndex |-> 0, progress |-> NoProgress, running |-> FALSE]
\* no practice screen mounted
PracticeIdle ==
    /\ wordLists = <<>>
    /\ stored = <<>>
    /\ currentWordListIndex = 0
    /\ currentWordIndex = 0
    /\ progress = NoProgress
    /\ attempt = NoAttempt
    /\ advanceTimers = {}
    /\ listCompletionShown = FALSE
    /\ attemptsMade = 0
\* no sendMessage call has completed
NoCall == [outcome |-> "none", reply |-> "", failure |-> "none", trimmed |-> FALSE]
\* no chat service constructed
ChatIdle ==
    /\ apiKey = FALSE
    /\ chatHistory = <<>>
    /\ pending = <<>>
    /\ lastCall = NoCall
\* no function applied on its own
PureIdle ==
    /\ fn = "none"
    /\ fnArgs = <<>>
    /\ fnResult = None
\* no card mounted and no request served
AttemptIdle ==
    /\ FlightIdle
    /\ env = [apiKey |-> FALSE, projectId |-> FALSE, endpoint |-> FALSE]
    /\ word = <<>>
    /\ isAvailable = FALSE
    /\ isRecording = FALSE
    /\ isProcessing = FALSE
    /\ cardError = "none"
    /\ lastAccuracy = None
    /\ cardPc = "idle"
    /\ heard = <<>>
    /\ attemptRaw = None
    /\ reported = NoReport
    /\ request = NoRequest
    /\ apiPc = "idle"
    /\ backend = "none"
    /\ outboundCalls = 0
    /\ response = NoResponse

(***************************************************************************)
(* SpecScore: the scorers applied to every target / transcript pair.       *)
(***************************************************************************)
ScoreInit ==
    /\ PracticeIdle
    /\ ChatIdle
    /\ target \in TargetWords
    /\ transcript \in TranscriptsFor(target)
    /\ speechResult = NoResult
    /\ pc = "input"
    /\ scorer = "none"
    /\ raw = None
    /\ boosted = None
    /\ AttemptIdle
    /\ PureIdle

\* speechService.calculateAccuracy(word.text, transcript)
ScoreClient ==
    /\ pc = "input"
    /\ raw' = calculateAccuracy(target, transcript)
    /\ scorer' = "client"
    /\ pc' = "scored"
    /\ UNCHANGED <<target, transcript, speechResult, boosted, cardVars, apiVars,
                   flightVars, pureVars,
                   practiceVars, chatVars>>

\* POST, provider path: extractBestTranscript, then calculateAdvancedAccuracy
ScoreAdvanced ==
    /\ pc = "input"
    /\ \E sr \in SpeechResults(transcript) :
          /\ speechResult' = sr
          /\ raw' = calculateAdvancedAccuracy(target, extractBestTranscript(sr), sr)
    /\ scorer' = "advanced"
    /\ pc' = "scored"
    /\ UNCHANGED <<target, transcript, boosted, cardVars, apiVars,
                   flightVars, pureVars,
                   practiceVars, chatVars>>

\* fallbackTranscription: calculateSimpleAccuracy(targetWord, randomTranscript)
ScoreSimilarity ==
    /\ pc = "input"
    /\ raw' = calculateStringsimilarity(target, transcript)
    /\ scorer' = "similarity"
    /\ pc' = "scored"
    /\ UNCHANGED <<target, transcript, speechResult, boosted, cardVars, apiVars,
                   flightVars, pureVars,
                   practiceVars, chatVars>>

\* fallbackTranscription: the transcript Math.random() picks from mockVariations
\* and calculateSimpleAccuracy(targetWord, randomTranscript)
ScoreFallback ==
    /\ pc = "input"
    /\ \E k \in DOMAIN mockVariations(target) :
          /\ transcript' = mockVariations(target)[k]
          /\ raw' = fallbackTranscription(target, k).accuracy
    /\ scorer' = "fallback"
    /\ pc' = "scored"
    /\ UNCHANGED <<target, speechResult, boosted, cardVars, apiVars,
                   flightVars, pureVars,
                   practiceVars, chatVars>>

\* finalAccuracy = enhanceAccuracyScore(rawAccuracy)
Enhance ==
    /\ pc = "scored"
    /\ boosted' = enhanceAccuracyScore(raw)
    /\ pc' = "boosted"
    /\ UNCHANGED <<target, transcript, speechResult, scorer, raw, cardVars, apiVars,
                   flightVars, pureVars,
                   practiceVars, chatVars>>

ScoreNext == ScoreClient \/ ScoreAdvanced \/ ScoreSimilarity \/ ScoreFallback \/ Enhance
SpecScore == ScoreInit /\ [][ScoreNext]_vars

\* the transcript the scorer of the state was given: the provider path scores
\* extractBestTranscript(speechResult)
ScoredTranscript ==
    IF scorer = "advanced" THEN extractBestTranscript(speechResult) ELSE transcript
Scored == pc \in {"scored", "boosted"}

(***************************************************************************)
(* SpecEnhance: the encouragement transform applied to every raw score.    *)
(***************************************************************************)
EnhanceInit ==
    /\ PracticeIdle
    /\ ChatIdle
    /\ target = <<>>
    /\ transcript = <<>>
    /\ speechResult = NoResult
    /\ pc = "scored"
    /\ scorer = "given"
    /\ raw \in 0..100
    /\ boosted = None
    /\ AttemptIdle
    /\ PureIdle
EnhanceNext == Enhance
SpecEnhance == EnhanceInit /\ [][EnhanceNext]_vars

(***************************************************************************)
(* Spec: one practice card and the POST handler of /api/pronunciation.     *)
(* The card posts the word of every transcript it hears; other clients of  *)
(* the route post what they like.  The card is the active one (isActive),  *)
(* and an attempt runs from the button press to the end of the recogniser's*)
(* callback; Math.round at the end of enhanceAccuracyScore is the identity *)
(* on the integer scores it is given.                                      *)
(***************************************************************************)
Init ==
    /\ PracticeIdle
    /\ ChatIdle
    /\ ScoreIdle
    /\ FlightIdle
    /\ PureIdle
    /\ env \in [apiKey : BOOLEAN, projectId : BOOLEAN, endpoint : BOOLEAN]
    /\ word \in CardWords
    /\ isAvailable \in BOOLEAN
    /\ isRecording = FALSE
    /\ isProcessing = FALSE
    /\ cardError = "none"
    /\ lastAccuracy = None
    /\ cardPc = "idle"
    /\ heard = <<>>
    /\ attemptRaw = None
    /\ reported = NoReport
    /\ request = NoRequest
    /\ apiPc = "idle"
    /\ backend = "none"
    /\ outboundCalls = 0
    /\ response = NoResponse

\* handleListen up to the call of speechService.startListening
HandleListen ==
    /\ cardPc = "idle"
    /\ ~isRecording /\ ~isProcessing
    /\ IF ~isAvailable
       THEN /\ cardError' = "unsupported"
            /\ UNCHANGED <<isRecording, isProcessing, cardPc>>
       ELSE /\ cardError' = "none"
            /\ isProcessing' = TRUE
            /\ isRecording' = TRUE
            /\ cardPc' = "listening"
    /\ UNCHANGED <<word, isAvailable, lastAccuracy, heard, attemptRaw, reported,
                   scoreVars, apiVars,
                   flightVars, pureVars,
                   practiceVars, chatVars>>

\* the onError callback of startListening
RecogniserError ==
    /\ cardPc = "listening"
    /\ cardError' = "recognition"
    /\ isRecording' = FALSE
    /\ isProcessing' = FALSE
    /\ cardPc' = "idle"
    /\ UNCHANGED <<word, isAvailable, lastAccuracy, heard, attemptRaw, reported,
                   scoreVars, apiVars,
                   flightVars, pureVars,
                   practiceVars, chatVars>>

\* the onResult callback of startListening up to its fetch of /api/pronunciation
\* (getEnhancedPronunciationAnalysis: a mock audio blob and word.text)
RecogniserResult ==
    /\ cardPc = "listening"
    /\ apiPc = "idle"
    /\ \E t \in HeardFor(word) : heard' = t
    /\ request' = [from |-> "card", audio |-> TRUE, targetWord |-> word]
    /\ apiPc' = "received"
    /\ backend' = "none"
    /\ outboundCalls' = 0
    /\ response' = NoResponse
    /\ cardPc' = "analysing"
    /\ UNCHANGED <<word, isAvailable, isRecording, isProcessing, cardError,
                   lastAccuracy, attemptRaw, reported, env, scoreVars,
                   flightVars, pureVars,
                   practiceVars, chatVars>>

\* another client of the route posts a form, with or without its two fields
DirectPost ==
    /\ apiPc = "idle"
    /\ \E a \in BOOLEAN, tw \in CardWords \cup {<<>>} :
          request' = [from |-> "client", audio |-> a, targetWord |-> tw]
    /\ apiPc' = "received"
    /\ backend' = "none"
    /\ outboundCalls' = 0
    /\ response' = NoResponse
    /\ UNCHANGED <<env, cardVars, scoreVars,
                   flightVars, pureVars,
                   practiceVars, chatVars>>

\* POST up to its fetch of the provider: the 400 response, the fallback of an
\* unconfigured provider, or the outbound call
PostReceive ==
    /\ apiPc = "received"
    /\ IF ~request.audio \/ request.targetWord = <<>>
       THEN /\ response' = MissingInputResponse
            /\ apiPc' = "responded"
            /\ UNCHANGED outboundCalls
       ELSE IF ~IsConfigured(env)
       THEN /\ \E k \in DOMAIN mockVariations(request.targetWord) :
                  response' = fallbackTranscription(request.targetWord, k)
            /\ apiPc' = "responded"
            /\ UNCHANGED outboundCalls
       ELSE /\ outboundCalls' = outboundCalls + 1
            /\ apiPc' = "fetching"
            /\ UNCHANGED response
    /\ UNCHANGED <<env, request, backend, cardVars, scoreVars,
                   flightVars, pureVars,
                   practiceVars, chatVars>>

\* the provider answers 200 with a body that parses: POST scores the transcript
ProviderAnswers ==
    /\ apiPc = "fetching"
    /\ backend' = "ok"
    /\ \E t \in ProviderTranscriptsFor(request.targetWord) :
          \E sr \in SpeechResults(t) :
             response' = ProviderResponse(request.targetWord, sr)
    /\ apiPc' = "responded"
    /\ UNCHANGED <<env, request, outboundCalls, cardVars, scoreVars,
                   flightVars, pureVars,
                   practiceVars, chatVars>>

\* the provider answers with a status that is not OK: POST reads the error text
\* and falls back; a body that cannot be read throws into POST's catch
ProviderNotOk ==
    /\ apiPc = "fetching"
    /\ backend' = "notOk"
    /\ \/ \E k \in DOMAIN mockVariations(request.targetWord) :
             response' = fallbackTranscription(request.targetWord, k)
       \/ response' = InternalErrorResponse
    /\ apiPc' = "responded"
    /\ UNCHANGED <<env, request, outboundCalls, cardVars, scoreVars,
                   flightVars, pureVars,
                   practiceVars, chatVars>>

\* the fetch of the provider rejects (a network failure): POST's catch
ProviderRejects ==
    /\ apiPc = "fetching"
    /\ backend' = "rejected"
    /\ response' = InternalErrorResponse
    /\ apiPc' = "responded"
    /\ UNCHANGED <<env, request, outboundCalls, cardVars, scoreVars,
                   flightVars, pureVars,
                   practiceVars, chatVars>>

\* the provider answers 200 with a body speechResponse.json() cannot parse:
\* POST's catch
ProviderUnreadable ==
    /\ apiPc = "fetching"
    /\ backend' = "unreadable"
    /\ response' = InternalErrorResponse
    /\ apiPc' = "responded"
    /\ UNCHANGED <<env, request, outboundCalls, cardVars, scoreVars,
                   flightVars, pureVars,
                   practiceVars, chatVars>>

\* the rest of the onResult callback, run with rawAccuracy: the state updates and
\* the call of onPronunciationResult
FinishAttempt(rawAccuracy) ==
    LET finalAccuracy == enhanceAccuracyScore(rawAccuracy)
    IN /\ attemptRaw' = rawAccuracy
       /\ lastAccuracy' = finalAccuracy
       /\ cardError' = "none"
       /\ reported' = [accuracy |-> finalAccuracy, transcript |-> heard]
       /\ isRecording' = FALSE
       /\ isProcessing' = FALSE
       /\ cardPc' = "idle"

\* the card's fetch resolves: a response that is not OK throws into the catch of
\* the callback, which scores locally
CardReceivesResponse ==
    /\ cardPc = "analysing"
    /\ apiPc = "responded"
    /\ request.from = "card"
    /\ IF response.status = 200 /\ response.success
       THEN FinishAttempt(response.accuracy)
       ELSE FinishAttempt(calculateAccuracy(word, heard))
    /\ apiPc' = "idle"
    /\ UNCHANGED <<word, isAvailable, heard, env, request, backend, outboundCalls,
                   response, scoreVars,
                   flightVars, pureVars,
                   practiceVars, chatVars>>

\* the card's fetch rejects before the handler saw the request: the catch of the
\* callback scores locally
CardFetchFails ==
    /\ cardPc = "analysing"
    /\ apiPc = "received"
    /\ request.from = "card"
    /\ FinishAttempt(calculateAccuracy(word, heard))
    /\ apiPc' = "idle"
    /\ UNCHANGED <<word, isAvailable, heard, env, request, backend, outboundCalls,
                   response, scoreVars,
                   flightVars, pureVars,
                   practiceVars, chatVars>>

\* the other client takes its response
ClientReceivesResponse ==
    /\ apiPc = "responded"
    /\ request.from = "client"
    /\ apiPc' = "idle"
    /\ UNCHANGED <<env, request, backend, outboundCalls, response, cardVars, scoreVars,
                   flightVars, pureVars,
                   practiceVars, chatVars>>

Next ==
    \/ HandleListen
    \/ RecogniserError
    \/ RecogniserResult
    \/ DirectPost
    \/ PostReceive
    \/ ProviderAnswers
    \/ ProviderNotOk
    \/ ProviderRejects
    \/ ProviderUnreadable
    \/ CardReceivesResponse
    \/ CardFetchFails
    \/ ClientReceivesResponse
Spec == Init /\ [][Next]_vars

(***************************************************************************)
(* SpecAnalysis: the analyses POST returns next to the score, by           *)
(* analyzePronunciation on the provider path and by generateMockAnalysis   *)
(* on the fallback path.  A word of a provider result carries its          *)
(* duration, endTime - startTime, in tenths of a second.                   *)
(***************************************************************************)
\* analyzePronunciation(targetWord, speechResult)
analyzePronunciation(targetWord, speechRes) ==
    LET confidence == IF speechRes.hasAlternative THEN speechRes.confidence ELSE 0
        spokenText == IF speechRes.hasAlternative
                      THEN trim(toLowerCase(speechRes.transcript)) ELSE <<>>
        targetText == trim(toLowerCase(targetWord))
        words == IF speechRes.hasAlternative THEN speechRes.words ELSE <<>>
        overallQuality ==
            IF confidence >= 90 THEN "excellent"
            ELSE IF confidence >= 70 THEN "good"
            ELSE IF confidence >= 50 THEN "fair"
            ELSE "needs improvement"
        qualityStrengths ==
            IF confidence >= 90 THEN <<"Very clear pronunciation">>
            ELSE IF confidence >= 70 THEN <<"Clear pronunciation">>
            ELSE <<>>
        qualityIssues ==
            IF confidence >= 70 THEN <<>>
            ELSE IF confidence >= 50 THEN <<"Some unclear sounds detected">>
            ELSE <<"Pronunciation needs clarification">>
        lengthSuggestions ==
            IF Len(spokenText) < Len(targetText)
            THEN <<"Try to pronounce each syllable clearly">>
            ELSE IF Len(spokenText) > Len(targetText)
            THEN <<"Focus on the core sounds of the word">>
            ELSE <<>>
        lengthIssues ==
            IF Len(spokenText) < Len(targetText) THEN <<"Some sounds may be missing">>
            ELSE IF Len(spokenText) > Len(targetText) THEN <<"Extra sounds detected">>
            ELSE <<>>
        thMissing == includes(targetText, <<"t", "h">>) /\ ~includes(spokenText, <<"t", "h">>)
        rMissing == includes(targetText, <<"r">>) /\ ~includes(spokenText, <<"r">>)
        thSuggestions ==
            IF thMissing THEN <<"Practice the TH sound by placing tongue between teeth">>
            ELSE <<>>
        rSuggestions ==
            IF rMissing THEN <<"Practice the R sound with tongue curled back">> ELSE <<>>
        wordDuration == IF words = <<>> THEN 0 ELSE words[1].duration
        paceSuggestions ==
            IF words = <<>> THEN <<>>
            ELSE IF wordDuration > 20
            THEN <<"Try speaking a bit faster for more natural rhythm">>
            ELSE IF wordDuration < 3
            THEN <<"Take your time to pronounce each sound clearly">>
            ELSE <<>>
        paceStrengths ==
            IF words # <<>> /\ wordDuration <= 20 /\ wordDuration >= 3
            THEN <<"Good speaking pace">> ELSE <<>>
    IN IF spokenText # targetText
       THEN [overallQuality |-> overallQuality,
             specificIssues |-> qualityIssues \o lengthIssues
                 \o (IF thMissing THEN <<"TH sound needs attention">> ELSE <<>>)
                 \o (IF rMissing THEN <<"R sound could be clearer">> ELSE <<>>),
             strengths |-> qualityStrengths \o paceStrengths,
             suggestions |-> lengthSuggestions \o thSuggestions \o rSuggestions
                 \o paceSuggestions]
       ELSE [overallQuality |-> overallQuality,
             specificIssues |-> qualityIssues,
             strengths |-> qualityStrengths \o <<"Perfect word recognition">>
                 \o paceStrengths,
             suggestions |-> paceSuggestions]

\* generateMockAnalysis(targetWord, transcript)
generateMockAnalysis(targetWord, spokenText) ==
    LET accuracy == calculateSimpleAccuracy(targetWord, spokenText)
    IN [overallQuality |-> IF accuracy >= 80 THEN "good"
                           ELSE IF accuracy >= 60 THEN "fair"
                           ELSE "needs improvement",
        specificIssues |-> IF accuracy < 80
                           THEN <<"Practice needed for clearer pronunciation">>
                           ELSE <<>>,
        strengths |-> IF accuracy >= 80 THEN <<"Good attempt at the word">> ELSE <<>>,
        suggestions |-> <<"Listen to the example and practice slowly">>]

\* target words of the analyses
AnalysisWords ==
    {<<"c", "a", "t">>, <<"a", "t">>, <<"t", "h", "e">>, <<"c", "a", "r">>}
\* what the provider may transcribe for a word: the word, the word capitalised,
\* the word cut short, the word with a letter more, the word with its first
\* letter changed
AnalysisTranscriptsFor(w) ==
    {w, Spell("capital", w), DropLast(w), w \o <<"s">>, <<"d">> \o Tail(w)}
\* provider confidences, in hundredths (0: none reported)
AnalysisConfidences == {0, 40, 60, 75, 95}
\* durations of the first word, in tenths of a second
Durations == {1, 10, 25}
\* provider results for a transcript: none, or the transcript with a confidence
\* and with or without a timed word
AnalysisResults(t) ==
    {NoResult} \cup
    UNION {{[hasAlternative |-> TRUE, transcript |-> t, confidence |-> c, words |-> ws] :
               ws \in {<<>>} \cup
                      {<<[word |-> trim(t), confidence |-> c, duration |-> d]>> :
                          d \in Durations}} :
           c \in AnalysisConfidences}

AnalysisInit ==
    /\ PracticeIdle
    /\ ChatIdle
    /\ ScoreIdle
    /\ AttemptIdle
    /\ fn = "none"
    /\ fnResult = None
    /\ \E w \in AnalysisWords :
          \E t \in AnalysisTranscriptsFor(w) :
             \E sr \in AnalysisResults(t) :
                \E k \in DOMAIN mockVariations(w) :
                   fnArgs = [targetWord |-> w, speechResult |-> sr, variation |-> k]

\* POST on the provider path: accuracy and pronunciationAnalysis of the response
AnalyseProvider ==
    /\ fn = "none"
    /\ fn' = "analyzePronunciation"
    /\ LET w == fnArgs.targetWord
           sr == fnArgs.speechResult
       IN fnResult' =
             [accuracy |-> calculateAdvancedAccuracy(w, extractBestTranscript(sr), sr),
              analysis |-> analyzePronunciation(w, sr)]
    /\ UNCHANGED <<fnArgs, scoreVars, cardVars, apiVars, flightVars,
                   practiceVars, chatVars>>

\* fallbackTranscription: accuracy and pronunciationAnalysis of the response
AnalyseFallback ==
    /\ fn = "none"
    /\ fn' = "generateMockAnalysis"
    /\ LET w == fnArgs.targetWord
           randomTranscript == mockVariations(w)[fnArgs.variation]
       IN fnResult' =
             [accuracy |-> calculateSimpleAccuracy(w, randomTranscript),
              analysis |-> generateMockAnalysis(w, randomTranscript)]
    /\ UNCHANGED <<fnArgs, scoreVars, cardVars, apiVars, flightVars,
                   practiceVars, chatVars>>

AnalysisNext == AnalyseProvider \/ AnalyseFallback
SpecAnalysis == AnalysisInit /\ [][AnalysisNext]_vars
Analysed == fn \in {"analyzePronunciation", "generateMockAnalysis"}

(***************************************************************************)
(* SpecFlight: the record button of the card, SpeechRecognitionService and *)
(* the browser's recognition object.  The button is pressed whenever it is *)
(* enabled; the recognition object fires its events (onstart, onresult,    *)
(* onerror, onend) in the order the Web Speech API gives them; start() on  *)
(* an object that has not ended throws.  stop(), from stopListening or     *)
(* from the six-second timer, only makes the object end: EngineResult and  *)
(* EngineEnd cover it.  The analysis of a transcript ends with the answer  *)
(* of /api/pronunciation or with its failure.                              *)
(***************************************************************************)
\* disabled={!isActive || isPlaying || !isAvailable || isProcessing}, with the
\* processing flag left out
ButtonDisabled_ignoresProcessing == ~isAvailable
\* disabled={!isActive || isPlaying || !isAvailable || isProcessing} of the
\* record button, for the active card while no example plays
ButtonDisabled == ~isAvailable \/ isProcessing

FlightInit ==
    /\ PracticeIdle
    /\ ChatIdle
    /\ ScoreIdle
    /\ PureIdle
    /\ FlightIdle
    /\ env = [apiKey |-> FALSE, projectId |-> FALSE, endpoint |-> FALSE]
    /\ word \in CardWords
    /\ isAvailable \in BOOLEAN
    /\ isRecording = FALSE
    /\ isProcessing = FALSE
    /\ cardError = "none"
    /\ lastAccuracy = None
    /\ cardPc = "idle"
    /\ heard = <<>>
    /\ attemptRaw = None
    /\ reported = NoReport
    /\ request = NoRequest
    /\ apiPc = "idle"
    /\ backend = "none"
    /\ outboundCalls = 0
    /\ response = NoResponse

\* the onError callback the card hands to startListening
CardOnError(errorMessage) ==
    /\ cardError' = errorMessage
    /\ isRecording' = FALSE
    /\ isProcessing' = FALSE

\* handleError without its first line, if (resultHandled) return
ServiceHandleError_unguarded(errorMessage) ==
    /\ handlers' = [handlers EXCEPT !.resultHandled = TRUE]
    /\ outcomes' = [outcomes EXCEPT ![handlers.call] = Append(@, "onError")]
    /\ CardOnError(errorMessage)
\* handleError of the handlers installed: onError once, unless resultHandled
ServiceHandleError(errorMessage) ==
    IF handlers.resultHandled
    THEN UNCHANGED <<handlers, outcomes, cardError, isRecording, isProcessing>>
    ELSE /\ handlers' = [handlers EXCEPT !.resultHandled = TRUE]
         /\ outcomes' = [outcomes EXCEPT ![handlers.call] = Append(@, "onError")]
         /\ CardOnError(errorMessage)

\* startListening up to the return of its promise, called by handleListen
startListening ==
    IF isListening
    THEN /\ CardOnError("already in progress")
         /\ outcomes' = Append(outcomes, <<"onError">>)
         /\ UNCHANGED <<isListening, engine, handlers, calls, timers>>
    ELSE /\ calls' = calls + 1
         /\ IF engine = "idle"
            THEN /\ engine' = "starting"
                 /\ handlers' = [call |-> Len(outcomes) + 1, resultHandled |-> FALSE]
                 /\ outcomes' = Append(outcomes, <<>>)
                 /\ timers' = timers \cup {Len(outcomes) + 1}
                 /\ cardError' = "none"
                 /\ isProcessing' = TRUE
                 /\ isRecording' = TRUE
                 /\ UNCHANGED isListening
            ELSE \* recognition.start() throws: the catch of startListening
                 \* clears the call's maxTimeout and calls handleError
                 /\ isListening' = FALSE
                 /\ handlers' = [call |-> Len(outcomes) + 1, resultHandled |-> TRUE]
                 /\ outcomes' = Append(outcomes, <<"onError">>)
                 /\ CardOnError("already running")
                 /\ UNCHANGED <<engine, timers>>

\* handleListen with its call of startListening
handleListen ==
    IF isRecording \/ isProcessing
    THEN UNCHANGED <<cardError, isRecording, isProcessing, flightVars>>
    ELSE IF ~isAvailable
    THEN /\ cardError' = "unsupported"
         /\ UNCHANGED <<isRecording, isProcessing, flightVars>>
    ELSE /\ startListening
         /\ UNCHANGED pipelines

\* handleStopRecording with its call of stopListening
handleStopRecording ==
    IF isRecording
    THEN /\ isRecording' = FALSE
         /\ isProcessing' = FALSE
         /\ UNCHANGED <<cardError, flightVars>>
    ELSE UNCHANGED <<cardError, isRecording, isProcessing, flightVars>>

\* onPress={isRecording ? handleStopRecording : handleListen} of the button
PressRecordButton ==
    /\ ~ButtonDisabled
    /\ IF isRecording THEN handleStopRecording
       ELSE Len(outcomes) < MaxCalls /\ handleListen
    /\ UNCHANGED <<word, isAvailable, lastAccuracy, cardPc, heard, attemptRaw,
                   reported, scoreVars, apiVars, pureVars,
                   practiceVars, chatVars>>

\* recognition.onstart
EngineStarts ==
    /\ engine = "starting"
    /\ engine' = "listening"
    /\ isListening' = TRUE
    /\ UNCHANGED <<handlers, calls, outcomes, timers, pipelines, cardVars, scoreVars,
                   apiVars, pureVars,
                   practiceVars, chatVars>>

\* recognition.onresult with a transcript: recognition.stop() and handleResult,
\* which calls onResult once, unless resultHandled
EngineResult ==
    /\ engine = "listening"
    /\ engine' = "ending"
    /\ timers' = timers \ {handlers.call}
    /\ IF handlers.resultHandled
       THEN UNCHANGED <<isListening, handlers, outcomes, pipelines, heard>>
       ELSE \E t \in HeardFor(word) :
               /\ handlers' = [handlers EXCEPT !.resultHandled = TRUE]
               /\ outcomes' = [outcomes EXCEPT ![handlers.call] = Append(@, "onResult")]
               /\ isListening' = FALSE
               /\ heard' = t
               /\ pipelines' = pipelines \cup {[call |-> handlers.call, transcript |-> t]}
    /\ UNCHANGED <<calls, word, isAvailable, isRecording, isProcessing, cardError,
                   lastAccuracy, cardPc, attemptRaw, reported, scoreVars, apiVars,
                   pureVars,
                   practiceVars, chatVars>>

\* recognition.onerror
EngineError ==
    /\ engine \in {"starting", "listening"}
    /\ engine' = "ending"
    /\ timers' = timers \ {handlers.call}
    /\ isListening' = FALSE
    /\ ServiceHandleError("recognition")
    /\ UNCHANGED <<calls, pipelines, word, isAvailable, lastAccuracy, cardPc, heard,
                   attemptRaw, reported, scoreVars, apiVars, pureVars,
                   practiceVars, chatVars>>

\* recognition.onend
EngineEnd ==
    /\ engine \in {"listening", "ending"}
    /\ engine' = "idle"
    /\ timers' = timers \ {handlers.call}
    /\ isListening' = FALSE
    /\ ServiceHandleError("no-speech")
    /\ UNCHANGED <<calls, pipelines, word, isAvailable, lastAccuracy, cardPc, heard,
                   attemptRaw, reported, scoreVars, apiVars, pureVars,
                   practiceVars, chatVars>>

\* what /api/pronunciation answers the card with no provider configured, or a
\* failure of the request
PipelineResponses(w) ==
    {fallbackTranscription(w, k) : k \in DOMAIN mockVariations(w)}
        \cup {InternalErrorResponse}

\* an onResult callback runs from the answer of the API to its end
PipelineFinishes ==
    /\ \E p \in pipelines :
          \E r \in PipelineResponses(word) :
             LET rawAccuracy == IF r.status = 200 /\ r.success THEN r.accuracy
                                ELSE calculateAccuracy(word, p.transcript)
                 finalAccuracy == enhanceAccuracyScore(rawAccuracy)
             IN /\ attemptRaw' = rawAccuracy
                /\ lastAccuracy' = finalAccuracy
                /\ cardError' = "none"
                /\ reported' = [accuracy |-> finalAccuracy, transcript |-> p.transcript]
                /\ isRecording' = FALSE
                /\ isProcessing' = FALSE
                /\ pipelines' = pipelines \ {p}
    /\ UNCHANGED <<isListening, engine, handlers, calls, outcomes, timers, word,
                   isAvailable, cardPc, heard, scoreVars, apiVars, pureVars,
                   practiceVars, chatVars>>

\* the maxTimeout callback of a call, unless cleared: recognition.stop() if the
\* service is listening and the call has no outcome, and nothing otherwise; a
\* recognition asked to stop may still deliver onresult, onerror or onend, as
\* one that listens may, so that its state stays as it is
MaxTimeout ==
    /\ \E c \in timers : timers' = timers \ {c}
    /\ UNCHANGED <<isListening, engine, handlers, calls, outcomes, pipelines,
                   cardVars, scoreVars, apiVars, pureVars,
                   practiceVars, chatVars>>

FlightNext ==
    \/ PressRecordButton
    \/ EngineStarts
    \/ EngineResult
    \/ EngineError
    \/ EngineEnd
    \/ MaxTimeout
    \/ PipelineFinishes
SpecFlight == FlightInit /\ [][FlightNext]_vars

\* attempts in flight: a recognition that has not delivered its callback, and
\* the onResult callbacks that are running
InFlight ==
    (IF engine # "idle" /\ ~handlers.resultHandled THEN 1 ELSE 0)
        + Cardinality(pipelines)

(***************************************************************************)
(* SpecLive: Spec with the scheduling the code has.  The handler runs its  *)
(* own steps once it has a request, and a client that was answered reads   *)
(* the answer; nothing makes the provider answer, and neither fetch        *)
(* carries a timeout or an abort signal.                                   *)
(***************************************************************************)
LiveInit ==
    /\ Init
    /\ word = <<"c", "a", "t">>
    /\ env.apiKey = env.projectId /\ env.projectId = env.endpoint
SpecLive ==
    /\ LiveInit
    /\ [][Next]_vars
    /\ WF_vars(PostReceive)
    /\ WF_vars(ClientReceivesResponse)

(***************************************************************************)
(* The pure functions on their own: the two Jaro implementations, each     *)
(* called on a pair of strings and on the same pair in the other order;    *)
(* levenshteinDistance on the pairs of a triple of strings; the two        *)
(* syllable estimators on a word.                                          *)
(***************************************************************************)
PureLetters == {"a", "r"}
\* letters of the words whose syllables are counted: vowels, a final "e", "le",
\* consonants, a capital
SyllableLetters == {"a", "e", "l", "t", "E"}

PureInit ==
    /\ PracticeIdle
    /\ ChatIdle
    /\ ScoreIdle
    /\ AttemptIdle
    /\ fn = "none"
    /\ fnResult = None
    /\ \/ \E a \in StringsUpTo(PureLetters, MaxJaroLen) :
             \E b \in StringsUpTo(PureLetters, MaxJaroLen) :
                fnArgs = [str1 |-> a, str2 |-> b]
       \/ \E a \in StringsUpTo(PureLetters, MaxLen) :
             \E b \in StringsUpTo(PureLetters, MaxLen) :
                \E c \in StringsUpTo(PureLetters, MaxLen) :
                   fnArgs = [a |-> a, b |-> b, c |-> c]
       \/ \E w \in StringsUpTo(SyllableLetters, MaxLen) : fnArgs = [word |-> w]

\* SpeechRecognitionService.calculateJaroSimilarity, both orders
JaroClient ==
    /\ fn = "none"
    /\ DOMAIN fnArgs = {"str1", "str2"}
    /\ fn' = "calculateJaroSimilarity"
    /\ fnResult' = [forward |-> calculateJaroSimilarity(fnArgs.str1, fnArgs.str2),
                    backward |-> calculateJaroSimilarity(fnArgs.str2, fnArgs.str1)]
    /\ UNCHANGED <<fnArgs, scoreVars, cardVars, apiVars, flightVars,
                   practiceVars, chatVars>>

\* calculateJaroSimilarity of the API route, both orders
JaroServer ==
    /\ fn = "none"
    /\ DOMAIN fnArgs = {"str1", "str2"}
    /\ fn' = "apiCalculateJaroSimilarity"
    /\ fnResult' = [forward |-> apiCalculateJaroSimilarity(fnArgs.str1, fnArgs.str2),
                    backward |-> apiCalculateJaroSimilarity(fnArgs.str2, fnArgs.str1)]
    /\ UNCHANGED <<fnArgs, scoreVars, cardVars, apiVars, flightVars,
                   practiceVars, chatVars>>

\* levenshteinDistance on (a, a), (a, ''), (a, b), (b, c) and (a, c)
Levenshtein ==
    /\ fn = "none"
    /\ DOMAIN fnArgs = {"a", "b", "c"}
    /\ fn' = "levenshteinDistance"
    /\ fnResult' = [aa |-> levenshteinDistance(fnArgs.a, fnArgs.a),
                    aEmpty |-> levenshteinDistance(fnArgs.a, <<>>),
                    ab |-> levenshteinDistance(fnArgs.a, fnArgs.b),
                    bc |-> levenshteinDistance(fnArgs.b, fnArgs.c),
                    ac |-> levenshteinDistance(fnArgs.a, fnArgs.c)]
    /\ UNCHANGED <<fnArgs, scoreVars, cardVars, apiVars, flightVars,
                   practiceVars, chatVars>>

\* SpeechRecognitionService.estimateSyllableCount
SyllablesClient ==
    /\ fn = "none"
    /\ DOMAIN fnArgs = {"word"}
    /\ fn' = "estimateSyllableCount"
    /\ fnResult' = estimateSyllableCount(fnArgs.word)
    /\ UNCHANGED <<fnArgs, scoreVars, cardVars, apiVars, flightVars,
                   practiceVars, chatVars>>

\* estimateSyllables of the API route
SyllablesServer ==
    /\ fn = "none"
    /\ DOMAIN fnArgs = {"word"}
    /\ fn' = "estimateSyllables"
    /\ fnResult' = estimateSyllables(fnArgs.word)
    /\ UNCHANGED <<fnArgs, scoreVars, cardVars, apiVars, flightVars,
                   practiceVars, chatVars>>

\* SpeechRecognitionService.calculateCoreWordAccuracy
CoreWord ==
    /\ fn = "none"
    /\ DOMAIN fnArgs = {"str1", "str2"}
    /\ fn' = "calculateCoreWordAccuracy"
    /\ fnResult' = calculateCoreWordAccuracy(fnArgs.str1, fnArgs.str2)
    /\ UNCHANGED <<fnArgs, scoreVars, cardVars, apiVars, flightVars,
                   practiceVars, chatVars>>

\* SpeechRecognitionService.calculateAccentToleranceBonus
AccentBonus ==
    /\ fn = "none"
    /\ DOMAIN fnArgs = {"str1", "str2"}
    /\ fn' = "calculateAccentToleranceBonus"
    /\ fnResult' = calculateAccentToleranceBonus(fnArgs.str1, fnArgs.str2)
    /\ UNCHANGED <<fnArgs, scoreVars, cardVars, apiVars, flightVars,
                   practiceVars, chatVars>>

\* SpeechRecognitionService.calculateStressPatternAccuracy
StressPattern ==
    /\ fn = "none"
    /\ DOMAIN fnArgs = {"str1", "str2"}
    /\ fn' = "calculateStressPatternAccuracy"
    /\ fnResult' = calculateStressPatternAccuracy(fnArgs.str1, fnArgs.str2)
    /\ UNCHANGED <<fnArgs, scoreVars, cardVars, apiVars, flightVars,
                   practiceVars, chatVars>>

PureNext == \/ JaroClient \/ JaroServer \/ Levenshtein
            \/ SyllablesClient \/ SyllablesServer
            \/ CoreWord \/ AccentBonus \/ StressPattern
SpecPure == PureInit /\ [][PureNext]_vars
JaroDone == fn \in {"calculateJaroSimilarity", "apiCalculateJaroSimilarity"}
SyllablesDone == fn \in {"estimateSyllableCount", "estimateSyllables"}

(***************************************************************************)
(* SpecPractice: the practice screen, app/(tabs)/index.tsx, over the data  *)
(* service.  Indices are those of the code, from 0; a word list is named   *)
(* by its place in wordLists, from 1, and a word by <<list, index>>.       *)
(***************************************************************************)
ACCURACY_THRESHOLD == 70
\* initializeDefaultData: basicWords and animalWords have five words each
DefaultWordLists == <<5, 5>>
\* the accuracies a card reports: a failed attempt, passed ones
Accuracies == {60, 70, 100}

\* getStudentProgress: the first record of the word list, if any
getStudentProgress(wordListId) ==
    IF \E n \in DOMAIN stored : stored[n].wordListId = wordListId
    THEN stored[CHOOSE n \in DOMAIN stored :
                    /\ stored[n].wordListId = wordListId
                    /\ \A m \in 1..(n - 1) : stored[m].wordListId # wordListId]
    ELSE NoProgress

\* {...record, ...updates}
Spread(record, updates) ==
    [f \in DOMAIN record |-> IF f \in DOMAIN updates THEN updates[f] ELSE record[f]]

\* updateStudentProgress: <<the progress array afterwards, the record returned>>
updateStudentProgress(wordListId, updates) ==
    IF \E n \in DOMAIN stored : stored[n].wordListId = wordListId
    THEN LET index == CHOOSE n \in DOMAIN stored :
                         /\ stored[n].wordListId = wordListId
                         /\ \A m \in 1..(n - 1) : stored[m].wordListId # wordListId
             merged == Spread(stored[index], updates)
         IN <<[stored EXCEPT ![index] = merged], merged>>
    ELSE LET newProgress == Spread([wordListId |-> wordListId, completedWords |-> {},
                                    currentWordIndex |-> 0], updates)
         IN <<Append(stored, newProgress), newProgress>>

\* loadProgress, run by the effect on [wordLists, currentWordListIndex]
loadProgress(listIndex) ==
    IF listIndex + 1 \in DOMAIN wordLists
    THEN LET studentProgress == getStudentProgress(listIndex + 1)
             created == updateStudentProgress(listIndex + 1,
                            [currentWordIndex |-> 0, completedWords |-> {}])
         IN IF studentProgress # NoProgress
            THEN /\ progress' = studentProgress
                 /\ currentWordIndex' = studentProgress.currentWordIndex
                 /\ UNCHANGED stored
            ELSE /\ Len(stored) < MaxStored
                 /\ stored' = created[1]
                 /\ progress' = created[2]
                 /\ currentWordIndex' = 0
    ELSE UNCHANGED <<progress, currentWordIndex, stored>>

\* the data service after its constructor, the screen after its first effects
PracticeInit ==
    /\ ScoreIdle
    /\ AttemptIdle
    /\ PureIdle
    /\ ChatIdle
    /\ wordLists = DefaultWordLists
    /\ stored = [k \in DOMAIN DefaultWordLists |->
                    [wordListId |-> k, completedWords |-> {}, currentWordIndex |-> 0]]
    /\ currentWordListIndex = 0
    /\ currentWordIndex = 0
    /\ progress = stored[1]
    /\ attempt = NoAttempt
    /\ advanceTimers = {}
    /\ listCompletionShown = FALSE
    /\ attemptsMade = 0

\* currentWord of the render: the card and the word buttons are there
CurrentWordExists ==
    /\ currentWordListIndex + 1 \in DOMAIN wordLists
    /\ currentWordIndex \in 0..(wordLists[currentWordListIndex + 1] - 1)

\* isActive of the card
IsActive ==
    LET currentWord == <<currentWordListIndex + 1, currentWordIndex>>
        isCurrentWordCompleted ==
            progress # NoProgress /\ currentWord \in progress.completedWords
    IN \/ ~isCurrentWordCompleted
       \/ currentWordIndex = (IF progress = NoProgress THEN 0 ELSE progress.currentWordIndex)

\* handleCreateWordList of the teacher screen: createWordList pushes a list
\* onto the array the practice screen holds
CreateWordList ==
    /\ Len(wordLists) < MaxLists
    /\ \E n \in 1..MaxNewWords : wordLists' = Append(wordLists, n)
    /\ UNCHANGED <<stored, currentWordListIndex, currentWordIndex, progress, attempt,
                   advanceTimers, listCompletionShown, attemptsMade, scoreVars, cardVars, apiVars,
                   flightVars, pureVars, chatVars>>

\* the card starts an attempt: its callback will call the
\* handlePronunciationResult of this render
StartAttempt ==
    /\ CurrentWordExists
    /\ IsActive
    /\ attempt = NoAttempt
    /\ attemptsMade < MaxAttempts
    /\ attemptsMade' = attemptsMade + 1
    /\ attempt' = [listIndex |-> currentWordListIndex, wordIndex |-> currentWordIndex,
                   progress |-> progress, running |-> TRUE]
    /\ UNCHANGED <<wordLists, stored, currentWordListIndex, currentWordIndex, progress,
                   advanceTimers, listCompletionShown, scoreVars, cardVars, apiVars,
                   flightVars, pureVars, chatVars>>

\* handlePronunciationResult, with the state of the render it belongs to
handlePronunciationResult(accuracy) ==
    IF attempt.progress = NoProgress \/ attempt.listIndex + 1 \notin DOMAIN wordLists
    THEN UNCHANGED <<stored, progress, advanceTimers>>
    ELSE LET wordListId == attempt.listIndex + 1
             length == wordLists[wordListId]
             currentWord == <<wordListId, attempt.wordIndex>>
             nextWordIndex == Min2(attempt.wordIndex + 1, length - 1)
             passed == accuracy >= ACCURACY_THRESHOLD
             updatedProgress ==
                 IF passed
                 THEN Spread(attempt.progress,
                             [completedWords |->
                                  attempt.progress.completedWords \cup {currentWord},
                              currentWordIndex |-> nextWordIndex])
                 ELSE attempt.progress
             updated == updateStudentProgress(wordListId, updatedProgress)
         IN /\ Len(updated[1]) <= MaxStored
            /\ stored' = updated[1]
            /\ progress' = updated[2]
            /\ advanceTimers' =
                  IF passed
                  THEN advanceTimers \cup {[nextWordIndex |-> nextWordIndex,
                                            length |-> length,
                                            passedIndex |-> attempt.wordIndex]}
                  ELSE advanceTimers

\* the card reports the accuracy of the attempt
PronunciationResult ==
    /\ attempt # NoAttempt
    /\ \E accuracy \in Accuracies : handlePronunciationResult(accuracy)
    /\ attempt' = NoAttempt
    /\ UNCHANGED <<wordLists, currentWordListIndex, currentWordIndex,
                   listCompletionShown, attemptsMade, scoreVars, cardVars, apiVars, flightVars,
                   pureVars, chatVars>>

\* the timer of 3500 ms set by a passed attempt
AutoAdvance ==
    /\ \E t \in advanceTimers :
          /\ advanceTimers' = advanceTimers \ {t}
          /\ IF t.nextWordIndex < t.length
             THEN /\ currentWordIndex' = t.nextWordIndex
                  /\ UNCHANGED listCompletionShown
             ELSE \* showListCompletionAchievement
                  /\ listCompletionShown' = TRUE
                  /\ UNCHANGED currentWordIndex
    /\ UNCHANGED <<wordLists, stored, currentWordListIndex, progress, attempt,
                   attemptsMade, scoreVars, cardVars, apiVars, flightVars, pureVars, chatVars>>

\* navigateWordList, by a list button that is not disabled, and the effect
NavigateWordList ==
    /\ \E direction \in {"prev", "next"} :
          LET newIndex == IF direction = "prev"
                          THEN Max2(0, currentWordListIndex - 1)
                          ELSE Min2(Len(wordLists) - 1, currentWordListIndex + 1)
          IN /\ newIndex # currentWordListIndex
             /\ currentWordListIndex' = newIndex
             /\ loadProgress(newIndex)
    /\ UNCHANGED <<wordLists, attempt, advanceTimers, listCompletionShown, attemptsMade, scoreVars,
                   cardVars, apiVars, flightVars, pureVars, chatVars>>

canNavigateWord(direction) ==
    /\ progress # NoProgress
    /\ currentWordListIndex + 1 \in DOMAIN wordLists
    /\ IF direction = "prev" THEN currentWordIndex > 0
       ELSE /\ <<currentWordListIndex + 1, currentWordIndex>> \in progress.completedWords
            /\ currentWordIndex < wordLists[currentWordListIndex + 1] - 1

\* navigateWord, by a word button of the screen
NavigateWord ==
    /\ CurrentWordExists
    /\ \E direction \in {"prev", "next"} :
          /\ canNavigateWord(direction)
          /\ currentWordIndex' =
                IF direction = "prev" THEN Max2(0, currentWordIndex - 1)
                ELSE Min2(wordLists[currentWordListIndex + 1] - 1, currentWordIndex + 1)
    /\ UNCHANGED <<wordLists, stored, currentWordListIndex, progress, attempt,
                   advanceTimers, listCompletionShown, attemptsMade, scoreVars, cardVars, apiVars,
                   flightVars, pureVars, chatVars>>

PracticeNext ==
    \/ CreateWordList
    \/ StartAttempt
    \/ PronunciationResult
    \/ AutoAdvance
    \/ NavigateWordList
    \/ NavigateWord
SpecPractice == PracticeInit /\ [][PracticeNext]_vars
\* the timers run
SpecPracticeLive == SpecPractice /\ WF_vars(AutoAdvance)

(***************************************************************************)
(* The chat service (geminiService.ts): chatHistory is the array of the    *)
(* service, pending the user messages of the sendMessage calls waiting for *)
(* fetch, lastCall what the call that completed last gave its caller.      *)
(***************************************************************************)
MaxPending == 2
UserMessages == {"hi", "go"}
AiResponses == {"yay"}
\* what the await of fetch and the reading of the body can give
Failures == {"network error", "not ok", "no candidates"}
fallbackResponses == <<"hiccup", "circuits", "difficulties">>

\* initializePuropuroPersonality: the prompt and the greeting
PersonalityEntries ==
    << [role |-> "user", text |-> "prompt"], [role |-> "model", text |-> "greeting"] >>

\* h.slice(-n)
SliceLast(h, n) == SubSeq(h, Max2(1, Len(h) - n + 1), Len(h))

\* the trimming of an over-long history that forgets the two first entries
TrimHistory_lastEighteen(h) ==
    IF Len(h) > 20 THEN SliceLast(h, 18) ELSE h

\* lines 139-147: over 20 entries, the two first and the last 16 are kept
TrimHistory(h) ==
    IF Len(h) > 20 THEN <<h[1], h[2]>> \o SliceLast(h, 16) ELSE h

\* a sendMessage that adds the user message before the request is sent
sendMessage_pushBeforeFetch(history, userMessage, result, pick) ==
    LET userChatMessage == [role |-> "user", text |-> userMessage]
    IN IF result \in Failures
       THEN [history |-> Append(history, userChatMessage),
             call |-> [outcome |-> "returned", reply |-> fallbackResponses[pick],
                       failure |-> result, trimmed |-> FALSE]]
       ELSE LET pushed == history \o <<userChatMessage, [role |-> "model", text |-> result]>>
            IN [history |-> TrimHistory(pushed),
                call |-> [outcome |-> "returned", reply |-> result,
                          failure |-> "none", trimmed |-> Len(pushed) > 20]]

\* the try / catch of sendMessage once fetch has settled with result: a
\* failure is caught and answered with the fallback of index pick, an answer
\* is pushed after the user message and the history trimmed
sendMessage(history, userMessage, result, pick) ==
    LET userChatMessage == [role |-> "user", text |-> userMessage]
    IN IF result \in Failures
       THEN [history |-> history,
             call |-> [outcome |-> "returned", reply |-> fallbackResponses[pick],
                       failure |-> result, trimmed |-> FALSE]]
       ELSE LET pushed == history \o <<userChatMessage, [role |-> "model", text |-> result]>>
            IN [history |-> TrimHistory(pushed),
                call |-> [outcome |-> "returned", reply |-> result,
                          failure |-> "none", trimmed |-> Len(pushed) > 20]]

\* the service after its constructor; the key comes from the environment
ChatInit ==
    /\ ScoreIdle
    /\ AttemptIdle
    /\ PureIdle
    /\ PracticeIdle
    /\ apiKey \in BOOLEAN
    /\ chatHistory = PersonalityEntries
    /\ pending = <<>>
    /\ lastCall = NoCall

\* sendMessage up to its await: without a key it throws, with one the request
\* leaves
SendMessage ==
    /\ \E userMessage \in UserMessages :
          IF ~apiKey
          THEN /\ lastCall' = [outcome |-> "threw", reply |-> "", failure |-> "none",
                               trimmed |-> FALSE]
               /\ UNCHANGED pending
          ELSE /\ Len(pending) < MaxPending
               /\ pending' = Append(pending, userMessage)
               /\ UNCHANGED lastCall
    /\ UNCHANGED <<apiKey, chatHistory, scoreVars, cardVars, apiVars, flightVars,
                   pureVars, practiceVars>>

\* the rest of a waiting sendMessage
Settle(i, result, pick) ==
    LET done == sendMessage(chatHistory, pending[i], result, pick)
    IN /\ chatHistory' = done.history
       /\ lastCall' = done.call
       /\ pending' = SubSeq(pending, 1, i - 1) \o SubSeq(pending, i + 1, Len(pending))
       /\ UNCHANGED <<apiKey, scoreVars, cardVars, apiVars, flightVars, pureVars,
                      practiceVars>>

\* the backend answers one of the waiting calls
BackendAnswers ==
    \E i \in DOMAIN pending : \E aiResponse \in AiResponses : Settle(i, aiResponse, 1)

\* the request of one of the waiting calls fails
BackendFails ==
    \E i \in DOMAIN pending : \E failure \in Failures :
        \E pick \in DOMAIN fallbackResponses : Settle(i, failure, pick)

\* clearChatHistory
ClearChatHistory ==
    /\ chatHistory' = PersonalityEntries
    /\ UNCHANGED <<apiKey, pending, lastCall, scoreVars, cardVars, apiVars, flightVars,
                   pureVars, practiceVars>>

ChatNext ==
    \/ SendMessage
    \/ BackendAnswers
    \/ BackendFails
    \/ ClearChatHistory
SpecChat == ChatInit /\ [][ChatNext]_vars

(***************************************************************************)
(* Properties of the scorers (SpecScore) and of the transform (SpecEnhance)*)
(***************************************************************************)
\* C1: a non-empty word scored against itself by calculateAccuracy gives 100,
\* and enhanceAccuracyScore leaves a raw score of 100 at 100.
C1_SameWordScoresFull ==
    /\ (Scored /\ scorer = "client" /\ target # <<>> /\ transcript = target)
          => raw = 100
    /\ (pc = "boosted" /\ raw = 100) => boosted = 100
C1_SameWordScored ==
    /\ pc = "boosted"
    /\ scorer = "client"
    /\ target = <<"c", "a", "t">>
    /\ transcript = target
    /\ raw = 100
    /\ boosted = 100

\* C2: every score of calculateAccuracy, calculateAdvancedAccuracy and
\* calculateStringsimilarity, for every pair and every provider result, is an
\* integer from 0 to 100, and so is enhanceAccuracyScore of it.
C2_ScoresInRange ==
    /\ Scored => raw \in 0..100
    /\ pc = "boosted" => boosted \in 0..100
C2_PartialScoreBoosted ==
    /\ pc = "boosted"
    /\ scorer = "advanced"
    /\ speechResult.confidence > 0
    /\ raw \in 1..99
    /\ boosted > raw

\* C3: a transcript that equals the target word after lower-casing and after
\* stripping punctuation and whitespace scores exactly 100, on calculateAccuracy
\* and on calculateAdvancedAccuracy, whatever the provider result.
C3_NormalisedMatchScoresFull ==
    (/\ Scored
     /\ scorer \in {"client", "advanced"}
     /\ target # <<>>
     /\ cleanWord(ScoredTranscript) = cleanWord(target))
        => raw = 100

\* C4: for two words of the same length that differ in exactly one character,
\* calculateAccuracy is strictly between 0 and 100.
C4_OneLetterOffScoresPartial ==
    LET w1 == cleanWord(target)
        w2 == cleanWord(transcript)
    IN (/\ Scored
        /\ scorer = "client"
        /\ Len(w1) = Len(w2)
        /\ Cardinality({i \in 1..Len(w1) : w1[i] # w2[i]}) = 1)
           => (0 < raw /\ raw < 100)

\* C5: when exactly one of the target word and the transcript is empty, the raw
\* accuracy is 0 on calculateAccuracy, calculateAdvancedAccuracy and
\* calculateStringsimilarity.
C5_EmptySideScoresZero ==
    /\ (Scored /\ target # <<>> /\ ScoredTranscript = <<>>) => raw = 0
    /\ (Scored /\ target = <<>> /\ cleanWord(ScoredTranscript) # <<>>) => raw = 0

\* C6: enhanceAccuracyScore is monotonic on 0..100: no raw score below the one
\* boosted gets a higher boosted score.
C6_EnhanceMonotonic ==
    pc = "boosted" => \A a \in 0..raw : enhanceAccuracyScore(a) <= boosted

\* C7: for every raw score r in 0..100 the boosted score b has r <= b <= 100,
\* b <= 65 for r in [30,40), b <= 85 for r in [40,70), b <= 92 for r in [70,85),
\* and b >= 45 for r >= 20.
C7_EnhanceBounds ==
    pc = "boosted" =>
        /\ raw <= boosted
        /\ boosted <= 100
        /\ (raw >= 30 /\ raw < 40) => boosted <= 65
        /\ (raw >= 40 /\ raw < 70) => boosted <= 85
        /\ (raw >= 70 /\ raw < 85) => boosted <= 92
        /\ raw >= 20 => boosted >= 45
C7_FloorApplied ==
    /\ pc = "boosted"
    /\ raw \in 20..29
    /\ boosted = 45

(***************************************************************************)
(* Properties of an attempt and of the POST handler (Spec).                *)
(***************************************************************************)
\* C8: what a completed attempt hands to onPronunciationResult lets the caller
\* recover the raw accuracy: no other raw score has the accuracy reported.
C8_RawRecoverable ==
    reported # NoReport =>
        \A r \in 0..100 :
            enhanceAccuracyScore(r) = reported.accuracy => r = attemptRaw

\* C9: a POST with an audio file and a target word, whatever the provider does
\* (a status that is not OK, a failed request, an unreadable body), ends in a
\* fallback result with success = true.
C9_BackendFailureFallsBack ==
    (/\ apiPc = "responded"
     /\ request.audio
     /\ request.targetWord # <<>>
     /\ backend \in {"notOk", "rejected", "unreadable"})
        => (response.success /\ response.provider = "fallback")

\* C10: with the API key, the project id or the endpoint missing, a POST with
\* audio and target word makes no call of the provider and answers 200 with
\* success = true and provider = 'fallback', never an error.
C10_UnconfiguredFallsBack ==
    ~(env.apiKey /\ env.projectId /\ env.endpoint) =>
        /\ outboundCalls = 0
        /\ apiPc # "fetching"
        /\ (apiPc = "responded" /\ request.audio /\ request.targetWord # <<>>)
              => /\ response.status = 200
                 /\ response.success
                 /\ response.provider = "fallback"
                 /\ response.error = "none"
C10_UnconfiguredAnswered ==
    /\ env.apiKey /\ env.endpoint /\ ~env.projectId
    /\ apiPc = "responded"
    /\ request.audio
    /\ request.targetWord = <<"c", "a", "t">>
    /\ response.provider = "fallback"
    /\ outboundCalls = 0

\* C11: an attempt whose provider call never answers still completes: a card
\* that waits while the handler waits for the provider eventually finishes the
\* attempt and leaves its processing state, unless the provider answered.
C11_HungProviderTimesOut ==
    (cardPc = "analysing" /\ apiPc = "fetching")
        ~> ((cardPc = "idle" /\ ~isProcessing) \/ apiPc = "responded")

C13_MockVariationScoresHalf ==
    (Scored /\ scorer = "fallback" /\ target # <<>>) => raw >= 50

(***************************************************************************)
(* Properties of the analyses (SpecAnalysis).                              *)
(***************************************************************************)
\* C14: the quality tier of every analysis follows the score: 80 and more gives
\* 'excellent' or 'good', 50 to 79 gives 'fair', less than 50 gives
\* 'needs improvement', for generateMockAnalysis and for analyzePronunciation.
C14_TierFollowsScore ==
    Analysed =>
        LET tier == fnResult.analysis.overallQuality
            score == fnResult.accuracy
        IN /\ score >= 80 => tier \in {"excellent", "good"}
           /\ (score >= 50 /\ score < 80) => tier = "fair"
           /\ score < 50 => tier = "needs improvement"

\* C15: every analysis, of analyzePronunciation and of generateMockAnalysis,
\* has at least one strength, whatever the score.
C15_AlwaysAStrength ==
    Analysed => Len(fnResult.analysis.strengths) >= 1

\* C16: an analysis that comes with a score of 100 has no suggestions.
C16_FullScoreNoSuggestions ==
    (Analysed /\ fnResult.accuracy = 100) => fnResult.analysis.suggestions = <<>>

\* C17: an analysis that comes with a score below 80 has at most one suggestion,
\* for every pair and every provider timing.
C17_LowScoreOneSuggestion ==
    (Analysed /\ fnResult.accuracy < 80) => Len(fnResult.analysis.suggestions) <= 1

(***************************************************************************)
(* Properties of the pure functions.                                       *)
(***************************************************************************)
\* C18: Jaro similarity is symmetric: calculateJaroSimilarity(a, b) equals
\* calculateJaroSimilarity(b, a), in the client and in the server implementation.
C18_JaroSymmetric ==
    JaroDone =>
        fnResult.forward[1] * fnResult.backward[2] =
            fnResult.backward[1] * fnResult.forward[2]

\* a pair of different lengths whose matches include a transposition, scored
\* strictly between 0 and 1 by the client implementation
C18_TransposedPairScored ==
    /\ fn = "calculateJaroSimilarity"
    /\ Len(fnArgs.str1) # Len(fnArgs.str2)
    /\ JaroTranspositions(fnArgs.str1, fnArgs.str2,
                          JaroScan(fnArgs.str1, fnArgs.str2,
                                   (Max2(Len(fnArgs.str1), Len(fnArgs.str2)) \div 2) - 1,
                                   1, {})) > 0
    /\ RLt(RInt(0), fnResult.forward)
    /\ RLt(fnResult.forward, RInt(1))

\* C19: levenshteinDistance is a metric: d(a, a) = 0, d(a, '') = length(a) and
\* d(a, c) <= d(a, b) + d(b, c) for all strings a, b, c.
C19_LevenshteinMetric ==
    fn = "levenshteinDistance" =>
        /\ fnResult.aa = 0
        /\ fnResult.aEmpty = Len(fnArgs.a)
        /\ fnResult.ac <= fnResult.ab + fnResult.bc

\* three different non-empty strings where going through b costs exactly the
\* distance from a to c, which is at least 2
C19_TightTriangle ==
    /\ fn = "levenshteinDistance"
    /\ fnArgs.a # <<>> /\ fnArgs.b # <<>> /\ fnArgs.c # <<>>
    /\ fnArgs.a # fnArgs.b /\ fnArgs.b # fnArgs.c /\ fnArgs.a # fnArgs.c
    /\ fnResult.ac >= 2
    /\ fnResult.ac = fnResult.ab + fnResult.bc

\* C20: both syllable estimators return at least 1 for every non-empty
\* alphabetic word, words without a vowel and words whose only vowel is a final
\* 'e' included.
C20_AtLeastOneSyllable ==
    (SyllablesDone /\ fnArgs.word # <<>>) => fnResult >= 1

\* a word without any vowel has been counted by the client estimator
C20_ConsonantWordCounted ==
    /\ fn = "estimateSyllableCount"
    /\ fnArgs.word # <<>>
    /\ \A i \in DOMAIN fnArgs.word : ~IsVowelY(ToLowerChar(fnArgs.word[i]))
    /\ fnResult = 1

\* C21: coreWordAccuracy is 95 when the accent-normalised forms are equal, and
\* otherwise 0.9 * max(jaroWinkler * 100, substring ratio * 100), where
\* jaroWinkler = jaro + 0.1 * commonPrefixLen (at most 4) * (1 - jaro).
C21_CoreWordUsesJaroWinkler ==
    fn = "calculateCoreWordAccuracy" =>
        LET a == normalizeForAccents(fnArgs.str1)
            b == normalizeForAccents(fnArgs.str2)
            shorter == IF Len(a) > Len(b) THEN b ELSE a
            longer == IF Len(a) > Len(b) THEN a ELSE b
            prefix == Cardinality({n \in 1..Min2(4, Len(shorter)) :
                                      \A k \in 1..n : a[k] = b[k]})
            jaro == IF a = <<>> /\ b = <<>> THEN RInt(1)
                    ELSE calculateJaroSimilarity(a, b)
            jaroWinkler == RAdd(jaro, RMul(Rat(prefix, 10),
                                           Rat(jaro[2] - jaro[1], jaro[2])))
            ratio == IF longer # <<>> /\ includes(longer, shorter)
                     THEN Rat(Len(shorter), Len(longer)) ELSE RInt(0)
            expected == IF a = b THEN RInt(95)
                        ELSE RMul(RMul(RMax(jaroWinkler, ratio), RInt(100)),
                                  Rat(9, 10))
        IN /\ RLe(fnResult, expected)
           /\ RLe(expected, fnResult)

\* C22: the accent-tolerance bonus includes the +15 component, once, whenever
\* one rule of accentVariations applied to the target or to the transcript
\* makes the two equal, and the bonus never exceeds 25.
C22_AccentBonusAwarded ==
    fn = "calculateAccentToleranceBonus" =>
        /\ fnResult \in {0, 5, 10, 15, 20, 25}
        /\ (\E n \in DOMAIN accentVariations :
               \/ ApplyVariation(accentVariations[n], fnArgs.str1) = fnArgs.str2
               \/ ApplyVariation(accentVariations[n], fnArgs.str2) = fnArgs.str1)
              => fnResult >= 15

\* a transcript that lost the target's final "r" earns exactly the +15
C22_DroppedRBonus ==
    /\ fn = "calculateAccentToleranceBonus"
    /\ fnArgs.str1 # fnArgs.str2
    /\ fnArgs.str1 = <<"a", "r">>
    /\ fnArgs.str2 = <<"a">>
    /\ fnResult = 15

\* C23: stressPatternAccuracy is at least 60 when both words have vowels, is 50
\* whenever either side has no vowel, and always lies in [50, 100].
C23_StressPatternFloors ==
    fn = "calculateStressPatternAccuracy" =>
        LET targetVowels == extractVowelPattern(fnArgs.str1)
            spokenVowels == extractVowelPattern(fnArgs.str2)
        IN /\ RLe(RInt(50), fnResult) /\ RLe(fnResult, RInt(100))
           /\ (targetVowels # <<>> /\ spokenVowels # <<>>) => RLe(RInt(60), fnResult)
           /\ (targetVowels = <<>> \/ spokenVowels = <<>>)
                 => (RLe(fnResult, RInt(50)) /\ RLe(RInt(50), fnResult))

\* C24: Jaro similarity lies in [0, 1], is 1 for identical strings and 0 when
\* exactly one of the two strings is empty, in both implementations.
C24_JaroRange ==
    JaroDone =>
        /\ RLe(RInt(0), fnResult.forward) /\ RLe(fnResult.forward, RInt(1))
        /\ fnArgs.str1 = fnArgs.str2 =>
              (RLe(RInt(1), fnResult.forward) /\ RLe(fnResult.forward, RInt(1)))
        /\ ((fnArgs.str1 = <<>>) # (fnArgs.str2 = <<>>)) =>
              (RLe(fnResult.forward, RInt(0)) /\ RLe(RInt(0), fnResult.forward))

\* the server implementation has scored an empty string against a non-empty one
C24_OneEmptyScoredZero ==
    /\ fn = "apiCalculateJaroSimilarity"
    /\ fnArgs.str1 = <<>>
    /\ fnArgs.str2 # <<>>
    /\ fnResult.forward = RInt(0)

C26_SameTranscriptSameAccuracy ==
    [][(/\ reported # NoReport
        /\ reported' # NoReport
        /\ word' = word
        /\ reported'.transcript = reported.transcript)
          => reported'.accuracy = reported.accuracy]_vars

(***************************************************************************)
(* Properties of the practice screen (SpecPractice).                       *)
(***************************************************************************)
\* C27: currentWordIndex always indexes a word of the selected word list,
\* 0 <= currentWordIndex < words.length, after any interleaving of results,
\* word navigation, word-list navigation and the auto-advance timer.
C27_WordIndexInRange == CurrentWordExists

\* C28: when the learner passes the last word of a word list, the
\* list-completion achievement is eventually shown.
C28_ListCompletionShown ==
    (\E t \in advanceTimers : t.passedIndex = t.length - 1) ~> listCompletionShown

(***************************************************************************)
(* Properties of the chat service (SpecChat)                               *)
(***************************************************************************)
\* C29: after any sequence of sendMessage and clearChatHistory the chat
\* history starts with the two personality entries, has an even length of at
\* most 20 and alternates user and model entries.
C29_HistoryShape ==
    /\ Len(chatHistory) >= 2
    /\ SubSeq(chatHistory, 1, 2) = PersonalityEntries
    /\ Len(chatHistory) % 2 = 0
    /\ Len(chatHistory) <= 20
    /\ \A i \in DOMAIN chatHistory :
          chatHistory[i].role = (IF i % 2 = 1 THEN "user" ELSE "model")
\* an answer made the history longer than 20 entries and it was trimmed
C29_HistoryTrimmed ==
    /\ lastCall.trimmed
    /\ Len(chatHistory) = 18
    /\ chatHistory[3].text = "go"

\* C30: with a key configured, a sendMessage whose backend call fails leaves
\* the history as it was and returns one of the fallback replies.
C30_FailureKeepsHistory ==
    [][(apiKey /\ Len(pending') < Len(pending) /\ lastCall'.failure \in Failures)
          => /\ chatHistory' = chatHistory
             /\ lastCall'.outcome = "returned"
             /\ \E k \in DOMAIN fallbackResponses : lastCall'.reply = fallbackResponses[k]]_vars
\* a call failed after earlier exchanges and returned a fallback
C30_FailedAfterExchange ==
    /\ apiKey
    /\ lastCall.failure = "no candidates"
    /\ lastCall.outcome = "returned"
    /\ lastCall.reply = "circuits"
    /\ Len(chatHistory) = 6

====
